---- MODULE Spec2Model ----
(***************************************************************************)
(* neighborgrid: a dense 2-D grid stored row-major in one flat sequence,   *)
(* addressed through flat offsets, signed (x, y) pairs and Coordinates     *)
(* records under a configurable origin and y-axis inversion, with          *)
(* directional neighbour lookup, a partition into divisor x divisor        *)
(* regions, and row, column and region iterators.                          *)
(*                                                                         *)
(* The state is the grid a caller owns (or NoGrid before construction) and *)
(* the last call made on it with its return value; for a call that makes   *)
(* an iterator, the iterator and the items its next() has returned so far. *)
(* Sequences are 1-based here, so the cell at storage offset i is          *)
(* items[i + 1].                                                           *)
(***************************************************************************)
EXTENDS Integers, Sequences, FiniteSets, TLC

VARIABLES grid, last

vars == <<grid, last>>

(***************************************************************************)
(* Bounds of the model.                                                    *)
(***************************************************************************)
\* Largest row or column count of the grids built by the general actions.
MaxDim == 4

\* The calls of next() a caller goes on making after the end of a sequence.
MaxEnds == 2
MaxWrites == 2
MaxSeqDim == 2

(***************************************************************************)
(* Result<T, GridError>, Option<T> and a panic (Vec indexing out of range, *)
(* division by zero), which Rust raises deterministically.                 *)
(***************************************************************************)
Ok(v) == [ok |-> TRUE, val |-> v]
Err(e) == [ok |-> FALSE, err |-> e]
Some(v) == [some |-> TRUE, val |-> v]
None == [some |-> FALSE]
Panic == [panic |-> TRUE]
IsPanic(r) == DOMAIN r = {"panic"}
IsSome(r) == (~IsPanic(r)) /\ r.some
IsNone(r) == (~IsPanic(r)) /\ ~r.some

\* error.rs: the GridError variants
GridError ==
    {"IndexOutOfBounds", "RowSizeMismatch", "InvalidSize", "ExcessiveSize",
     "InvalidDivisionSize"}

\* index.rs matches on these five variants of Origin
Origin == {"UpperLeft", "UpperRight", "Center", "LowerLeft", "LowerRight"}

NEIGHBOR_Y_BASED == TRUE
DEFAULT_WRAP == FALSE

\* impl Default for GridOptions
GridOptionsDefault ==
    [origin |-> "UpperLeft",
     inverted_y |-> TRUE,
     neighbor_ybased |-> NEIGHBOR_Y_BASED,
     wrap_x |-> DEFAULT_WRAP,
     wrap_y |-> DEFAULT_WRAP]

\* Option<GridOptions>::unwrap_or_default
unwrap_or_default(options) == IF options.some THEN options.val ELSE GridOptionsDefault

\* struct Grid
Grid(items, rows, cols, options) ==
    [items |-> items, rows |-> rows, cols |-> cols, options |-> options]

NoGrid == [nogrid |-> TRUE]
HasGrid == DOMAIN grid # {"nogrid"}

\* Grid::create
create(items, rows, cols, options) == Grid(items, rows, cols, unwrap_or_default(options))

\* Grid::size, rows, columns, origin, is_inverted_y, neighbor_ybased_invert
size(g) == Len(g.items)
rows(g) == g.rows
columns(g) == g.cols
origin(g) == g.options.origin
is_inverted_y(g) == g.options.inverted_y
neighbor_ybased_invert(g) == g.options.neighbor_ybased

(***************************************************************************)
(* index.rs: the three coordinate representations and their conversion to  *)
(* and from the flat storage offset.                                       *)
(***************************************************************************)
IdxUsize(i) == [kind |-> "usize", i |-> i]
IdxPair(x, y) == [kind |-> "pair", x |-> x, y |-> y]
IdxCoordinates(x, y) == [kind |-> "coord", x |-> x, y |-> y]

\* isize::abs() as usize
abs(v) == IF v < 0 THEN -v ELSE v

\* invert_y with the inversion forgotten
invert_y_ignored(g, y) == y

\* fn invert_y.  Grid.options is a plain GridOptions (grid.rs), so the branch for
\* an absent options record cannot be taken.
invert_y(g, y) == IF g.options.inverted_y THEN -y ELSE y

\* fn bounds_check: Ok(()) is modelled as Ok(TRUE)
bounds_check(g, x, y) ==
    LET maxlimit == abs(x) < g.cols /\ abs(y) < g.rows
        specific ==
            CASE origin(g) = "UpperLeft" -> x >= 0 /\ y <= 0
              [] origin(g) = "UpperRight" -> x <= 0 /\ y <= 0
              [] origin(g) = "LowerLeft" -> x >= 0 /\ y >= 0
              [] origin(g) = "LowerRight" -> x <= 0 /\ y >= 0
              [] origin(g) = "Center" ->
                    LET x_offset == (g.cols \div 2) + 1
                        y_offset == (g.rows \div 2) + 1
                    IN  abs(x) < x_offset /\ abs(y) < y_offset
    IN  IF specific /\ maxlimit THEN Ok(TRUE) ELSE Err("IndexOutOfBounds")

convert_center(g, x, y) == <<x + (g.cols \div 2), (-y) + (g.rows \div 2)>>
\* convert_upper_left without the sign flip of y
convert_upper_left_unflipped(g, x, y) == <<x, y>>
convert_upper_left(g, x, y) == <<x, -y>>
convert_upper_right(g, x, y) == <<x + (g.cols - 1), -y>>
convert_lower_left(g, x, y) == <<x, (g.rows - 1) - y>>
convert_lower_right(g, x, y) == <<(g.cols - 1) + x, (g.rows - 1) - y>>

\* fn adjust_from_origin: logical (x, y) to the storage's upper-left frame
adjust_from_origin(g, x, y) ==
    CASE origin(g) = "UpperLeft" -> convert_upper_left(g, x, y)
      [] origin(g) = "UpperRight" -> convert_upper_right(g, x, y)
      [] origin(g) = "Center" -> convert_center(g, x, y)
      [] origin(g) = "LowerLeft" -> convert_lower_left(g, x, y)
      [] origin(g) = "LowerRight" -> convert_lower_right(g, x, y)

\* fn adjust_to_origin: storage (column, row) to the origin's frame
adjust_to_origin(g, x, y) ==
    CASE origin(g) = "UpperLeft" -> convert_upper_left(g, x, y)
      [] origin(g) = "UpperRight" ->
            LET t == convert_upper_right(g, -x, y) IN <<-t[1], t[2]>>
      [] origin(g) = "Center" ->
            LET t == convert_center(g, -x, y) IN <<-t[1], t[2]>>
      [] origin(g) = "LowerLeft" -> convert_lower_left(g, x, y)
      [] origin(g) = "LowerRight" ->
            LET t == convert_lower_right(g, -x, y) IN <<-t[1], t[2]>>

\* fn xy_to_index: no bounds checking.  Its debug assertions (x >= 0, y >= 0)
\* are the predicate xy_to_index_asserts.
xy_to_index(g, x, y) ==
    LET c == adjust_from_origin(g, x, y) IN c[2] * g.cols + c[1]

xy_to_index_asserts(g, x, y) ==
    LET c == adjust_from_origin(g, x, y) IN c[1] >= 0 /\ c[2] >= 0

\* <(isize, isize) as Index>::grid_index
grid_index_pair(p, g) ==
    LET y == invert_y(g, p.y)
        b == bounds_check(g, p.x, y)
    IN  IF b.ok THEN Ok(xy_to_index(g, p.x, y)) ELSE b

\* <Coordinates as Index>::grid_index
grid_index_coordinates(c, g) ==
    LET y == invert_y(g, c.y)
        b == bounds_check(g, c.x, y)
    IN  IF b.ok THEN Ok(xy_to_index(g, c.x, y)) ELSE b

\* <usize as Index>::grid_index
grid_index_usize(i, g) == IF i < size(g) THEN Ok(i) ELSE Err("IndexOutOfBounds")

\* Index::grid_index, dispatched on the representation
grid_index(index, g) ==
    CASE index.kind = "usize" -> grid_index_usize(index.i, g)
      [] index.kind = "pair" -> grid_index_pair(index, g)
      [] index.kind = "coord" -> grid_index_coordinates(index, g)

\* <(isize, isize) as Index>::output
output_pair(index, g) ==
    LET x == index % g.cols
        y == index \div g.cols
        a == adjust_to_origin(g, x, y)
    IN  IdxPair(a[1], invert_y(g, a[2]))

\* <Coordinates as Index>::output
output_coordinates(index, g) ==
    LET x == index % g.cols
        y == index \div g.cols
        a == adjust_to_origin(g, x, y)
    IN  IdxCoordinates(a[1], invert_y(g, a[2]))

\* <usize as Index>::output
output_usize(index, g) == IdxUsize(index)

\* Index::output for the representation `kind`
output(kind, index, g) ==
    CASE kind = "usize" -> output_usize(index, g)
      [] kind = "pair" -> output_pair(index, g)
      [] kind = "coord" -> output_coordinates(index, g)

(***************************************************************************)
(* intogrid.rs and grid.rs: construction.                                  *)
(***************************************************************************)
I32_MAX == 2147483647

\* fn row_col_length_check.  rows.checked_mul(cols) cannot overflow a usize once
\* both factors are below i32::MAX.
row_col_length_check(r, c) ==
    IF r >= I32_MAX \/ c >= I32_MAX
    THEN Err("ExcessiveSize")
    ELSE IF r * c >= I32_MAX THEN Err("ExcessiveSize") ELSE Ok(r * c)

\* the loop of grid.append(&mut row) over the rows
RECURSIVE append_rows(_)
append_rows(v) == IF v = <<>> THEN <<>> ELSE Head(v) \o append_rows(Tail(v))

\* the same conversion comparing the row lengths before looking for emptiness
into_grid_vec2d_mismatch_first(v) ==
    LET r == Len(v) IN
    IF r >= 1
    THEN LET c == Len(v[1])
             total == row_col_length_check(r, c)
         IN  IF ~total.ok THEN total
             ELSE IF \E i \in 1..r : Len(v[i]) # c THEN Err("RowSizeMismatch")
             ELSE IF r = 0 \/ c = 0 THEN Err("InvalidSize")
             ELSE Ok(create(append_rows(v), r, c, None))
    ELSE Err("InvalidSize")
\* impl IntoGrid for Vec<Vec<T>>
into_grid_vec2d(v) ==
    LET r == Len(v) IN
    IF r >= 1
    THEN LET c == Len(v[1])
             total == row_col_length_check(r, c)
         IN  IF ~total.ok THEN total
             ELSE IF r = 0 \/ c = 0 THEN Err("InvalidSize")
             ELSE IF \E i \in 1..r : Len(v[i]) # c THEN Err("RowSizeMismatch")
             ELSE Ok(create(append_rows(v), r, c, None))
    ELSE Err("InvalidSize")

\* for _ in 0..n { vec.append(&mut pattern.clone()) }
RECURSIVE repeat_rows(_, _)
repeat_rows(pattern, n) == IF n = 0 THEN <<>> ELSE pattern \o repeat_rows(pattern, n - 1)

\* fn _convert1d on (pattern, row count).  Its last line calls
\* Grid::create(vec, cols, items.1, None), and create's parameters are
\* (items, rows, cols, options): the pattern's length goes to rows and the row
\* count to cols.
convert1d(pattern, n) ==
    LET total == row_col_length_check(n, Len(pattern))
        cols == Len(pattern)
    IN  IF ~total.ok THEN total
        ELSE IF cols = 0 \/ n = 0 THEN Err("InvalidSize")
        ELSE Ok(create(repeat_rows(pattern, n), cols, n, None))

\* impl IntoGrid for (&Vec<T>, usize)
into_grid_pattern_ref(pattern, n) == convert1d(pattern, n)

\* impl IntoGrid for (Vec<T>, usize)
into_grid_pattern(pattern, n) == convert1d(pattern, n)

\* vec![value; total]
fill(value, total) == [i \in 1..total |-> value]

\* impl IntoGrid for (usize, usize, T): (columns, rows, value)
into_grid_fill(c, r, value) ==
    LET total == row_col_length_check(c, r) IN
    IF ~total.ok THEN total
    ELSE Ok(Grid(fill(value, total.val), r, c, GridOptionsDefault))
\* IntoGrid::into_grid, dispatched on the kind of input
into_grid(items) ==
    CASE items.kind = "vec2d" -> into_grid_vec2d(items.v)
      [] items.kind = "pattern" -> into_grid_pattern(items.v, items.n)
      [] items.kind = "pattern_ref" -> into_grid_pattern_ref(items.v, items.n)
      [] items.kind = "fill" -> into_grid_fill(items.cols, items.rows, items.value)

\* Grid::new rejecting a Center origin on a grid with an even side
new_checks_center(items, options) ==
    LET r == into_grid(items) IN
    IF ~r.ok THEN r
    ELSE IF unwrap_or_default(options).origin = "Center"
            /\ (r.val.rows % 2 = 0 \/ r.val.cols % 2 = 0)
         THEN Err("InvalidSize")
         ELSE Ok([r.val EXCEPT !.options = unwrap_or_default(options)])

\* Grid::new
new(items, options) ==
    LET r == into_grid(items) IN
    IF r.ok THEN Ok([r.val EXCEPT !.options = unwrap_or_default(options)]) ELSE r

\* usize::MAX = 2^64 - 1 is beyond the integers the model computes with; it is
\* kept as this mark, which is no length and no product of two sizes.
USIZE_MAX == -1

\* usize::checked_mul: None when the product overflows a usize.  The factors
\* are usize::MAX or small numbers, and usize::MAX times 2 or more overflows.
checked_mul(a, b) ==
    IF a = USIZE_MAX \/ b = USIZE_MAX
    THEN LET other == IF a = USIZE_MAX THEN b ELSE a IN
         IF other = 0 THEN Some(0)
         ELSE IF other = 1 THEN Some(USIZE_MAX)
         ELSE None
    ELSE Some(a * b)
\* Grid::new_from_1d
new_from_1d(vec, cols, nrows, options) ==
    LET total == checked_mul(nrows, cols) IN
    IF IsNone(total) THEN Err("ExcessiveSize")
    ELSE IF Len(vec) # total.val
    THEN Err("InvalidSize")
    ELSE Ok(Grid(vec, nrows, cols, unwrap_or_default(options)))

(***************************************************************************)
(* origin.rs: the coordinate range accessors.  The enum of origin.rs has   *)
(* the variants UpperLeft, Center and LowerLeft, and the matches below     *)
(* have an arm for each of these three only.                               *)
(***************************************************************************)
OriginRs == {"UpperLeft", "Center", "LowerLeft"}

\* isize division, which truncates towards zero
isize_div(a, b) == IF a >= 0 THEN a \div b ELSE -((-a) \div b)

\* Origin::max_x
Origin_max_x(o, g) ==
    CASE o = "Center" -> isize_div(g.cols - 1, 2)
      [] o \in {"LowerLeft", "UpperLeft"} -> g.cols

\* Origin::min_x
Origin_min_x(o, g) ==
    CASE o = "Center" -> -(isize_div(g.cols, 2))
      [] o \in {"LowerLeft", "UpperLeft"} -> 0

\* Origin::max_y
Origin_max_y(o, g) ==
    CASE o = "Center" -> isize_div(g.rows + 1, 2)
      [] o = "LowerLeft" -> g.rows
      [] o = "UpperLeft" -> 0

\* Origin::min_y
Origin_min_y(o, g) ==
    CASE o = "Center" -> -(isize_div(g.rows, 2))
      [] o = "LowerLeft" -> 0
      [] o = "UpperLeft" -> -(g.rows)

\* Grid::max_x, Grid::max_y, Grid::min_x, Grid::min_y
max_x(g) == Origin_max_x(origin(g), g)
max_y(g) == Origin_max_y(origin(g), g)
min_x(g) == Origin_min_x(origin(g), g)
min_y(g) == Origin_min_y(origin(g), g)
(***************************************************************************)
(* grid.rs: cell access and neighbour resolution.                          *)
(***************************************************************************)
\* &self.items[idx]: Vec indexing panics outside 0 .. len-1
items_at(g, idx) == IF idx >= 0 /\ idx < Len(g.items) THEN Some(g.items[idx + 1]) ELSE Panic

\* Grid::get (get_mut resolves the same way)
get(g, index) ==
    LET r == grid_index(index, g) IN IF r.ok THEN items_at(g, r.val) ELSE None

\* Grid::actual_down_ind
actual_down_ind(g, index) ==
    LET res == index + g.cols IN
    IF res < size(g) THEN Ok(res)
    ELSE IF g.options.wrap_y THEN Ok(res - size(g)) ELSE Err("IndexOutOfBounds")

\* actual_up_ind wrapping to the last cell of the storage instead of the last
\* row of the same column
actual_up_ind_lastcell(g, index) ==
    IF index >= g.cols THEN Ok(index - g.cols)
    ELSE IF g.options.wrap_y THEN Ok(size(g) - 1) ELSE Err("IndexOutOfBounds")

\* Grid::actual_up_ind: index.checked_sub(cols) is None when index < cols
actual_up_ind(g, index) ==
    IF index >= g.cols THEN Ok(index - g.cols)
    ELSE IF g.options.wrap_y THEN Ok(index + size(g) - g.cols) ELSE Err("IndexOutOfBounds")

\* Grid::down_idx
down_idx(g, index) ==
    LET r == grid_index(index, g) IN
    IF ~r.ok THEN r
    ELSE IF is_inverted_y(g) /\ neighbor_ybased_invert(g)
         THEN actual_up_ind(g, r.val)
         ELSE actual_down_ind(g, r.val)

\* up_idx swapping on inverted_y alone, whatever neighbor_ybased says
up_idx_coupled(g, index) ==
    LET r == grid_index(index, g) IN
    IF ~r.ok THEN r
    ELSE IF is_inverted_y(g)
         THEN actual_down_ind(g, r.val)
         ELSE actual_up_ind(g, r.val)

\* Grid::up_idx
up_idx(g, index) ==
    LET r == grid_index(index, g) IN
    IF ~r.ok THEN r
    ELSE IF is_inverted_y(g) /\ neighbor_ybased_invert(g)
         THEN actual_down_ind(g, r.val)
         ELSE actual_up_ind(g, r.val)

\* left_idx wrapping one cell short of the end of the row
left_idx_wrap_short(g, index) ==
    LET r == grid_index(index, g) IN
    IF ~r.ok THEN r
    ELSE IF r.val = 0 \/ r.val % g.cols = 0
         THEN IF g.options.wrap_x THEN Ok(r.val + columns(g) - 2) ELSE Err("IndexOutOfBounds")
         ELSE Ok(r.val - 1)
\* Grid::left_idx
left_idx(g, index) ==
    LET r == grid_index(index, g) IN
    IF ~r.ok THEN r
    ELSE IF r.val = 0 \/ r.val % g.cols = 0
         THEN IF g.options.wrap_x THEN Ok(r.val + columns(g) - 1) ELSE Err("IndexOutOfBounds")
         ELSE Ok(r.val - 1)

\* right_idx wrapping to the next cell of the storage, the first cell of the
\* next row, instead of the first cell of the same row
right_idx_nextrow(g, index) ==
    LET r == grid_index(index, g) IN
    IF ~r.ok THEN r
    ELSE LET i == r.val + 1 IN
         IF i = size(g) \/ i % g.cols = 0
         THEN IF g.options.wrap_x THEN Ok(i % size(g)) ELSE Err("IndexOutOfBounds")
         ELSE Ok(i)

\* Grid::right_idx
right_idx(g, index) ==
    LET r == grid_index(index, g) IN
    IF ~r.ok THEN r
    ELSE LET i == r.val + 1 IN
         IF i = size(g) \/ i % g.cols = 0
         THEN IF g.options.wrap_x THEN Ok(i - columns(g)) ELSE Err("IndexOutOfBounds")
         ELSE Ok(i)

\* Grid::downleft_idx, downright_idx: down_idx(index).and_then(|i| ..)
downleft_idx(g, index) ==
    LET d == down_idx(g, index) IN IF d.ok THEN left_idx(g, IdxUsize(d.val)) ELSE d
downright_idx(g, index) ==
    LET d == down_idx(g, index) IN IF d.ok THEN right_idx(g, IdxUsize(d.val)) ELSE d

\* upleft_idx as the offset before the upper cell, without looking at the
\* left edge
upleft_idx_unchecked(g, index) ==
    LET u == up_idx(g, index) IN
    IF ~u.ok THEN u
    ELSE IF u.val = 0 THEN Err("IndexOutOfBounds") ELSE Ok(u.val - 1)

\* Grid::upleft_idx, upright_idx: up_idx(index).and_then(|i| ..)
upleft_idx(g, index) ==
    LET u == up_idx(g, index) IN IF u.ok THEN left_idx(g, IdxUsize(u.val)) ELSE u
upright_idx(g, index) ==
    LET u == up_idx(g, index) IN IF u.ok THEN right_idx(g, IdxUsize(u.val)) ELSE u

\* let idx = self.X_idx(index).ok()?; Some(&self.items[idx])
neighbor_item(g, r) == IF r.ok THEN items_at(g, r.val) ELSE None

\* Grid::get_up, get_down, get_left, get_right
get_up(g, index) == neighbor_item(g, up_idx(g, index))
get_down(g, index) == neighbor_item(g, down_idx(g, index))
get_left(g, index) == neighbor_item(g, left_idx(g, index))
get_right(g, index) == neighbor_item(g, right_idx(g, index))

\* Grid::get_upleft, get_upright, get_downleft, get_downright
get_upleft(g, index) == neighbor_item(g, upleft_idx(g, index))
get_upright(g, index) == neighbor_item(g, upright_idx(g, index))
get_downleft(g, index) == neighbor_item(g, downleft_idx(g, index))
get_downright(g, index) == neighbor_item(g, downright_idx(g, index))

\* Grid::get_mut: the cell get returns, as a mutable reference
get_mut(g, index) ==
    LET r == grid_index(index, g) IN IF r.ok THEN items_at(g, r.val) ELSE None

\* Grid::get_up_mut .. get_downright_mut: let idx = self.X_idx(index).ok()?;
\* Some(&mut self.items[idx])
get_up_mut(g, index) == neighbor_item(g, up_idx(g, index))
get_down_mut(g, index) == neighbor_item(g, down_idx(g, index))
get_left_mut(g, index) == neighbor_item(g, left_idx(g, index))
get_right_mut(g, index) == neighbor_item(g, right_idx(g, index))
get_upleft_mut(g, index) == neighbor_item(g, upleft_idx(g, index))
get_upright_mut(g, index) == neighbor_item(g, upright_idx(g, index))
get_downleft_mut(g, index) == neighbor_item(g, downleft_idx(g, index))
get_downright_mut(g, index) == neighbor_item(g, downright_idx(g, index))
\* a struct of Option fields built from getters: the call panics when one of
\* the getters does
built(n) == IF \E f \in DOMAIN n : IsPanic(n[f]) THEN Panic ELSE Ok(n)

\* Grid::xy_neighbors
xy_neighbors(g, index) ==
    LET r == grid_index(index, g) IN
    IF ~r.ok THEN r
    ELSE LET i == IdxUsize(r.val) IN
         built([up |-> get_up(g, i),
                down |-> get_down(g, i),
                left |-> get_left(g, i),
                right |-> get_right(g, i)])

\* all_around_neighbors filling downright with the cell below
all_around_neighbors_down_twice(g, index) ==
    LET r == grid_index(index, g) IN
    IF ~r.ok THEN r
    ELSE LET i == IdxUsize(r.val) IN
         built([upleft |-> get_upleft(g, i),
                up |-> get_up(g, i),
                upright |-> get_upright(g, i),
                left |-> get_left(g, i),
                right |-> get_right(g, i),
                downleft |-> get_downleft(g, i),
                down |-> get_down(g, i),
                downright |-> get_down(g, i)])

\* Grid::all_around_neighbors
all_around_neighbors(g, index) ==
    LET r == grid_index(index, g) IN
    IF ~r.ok THEN r
    ELSE LET i == IdxUsize(r.val) IN
         built([upleft |-> get_upleft(g, i),
                up |-> get_up(g, i),
                upright |-> get_upright(g, i),
                left |-> get_left(g, i),
                right |-> get_right(g, i),
                downleft |-> get_downleft(g, i),
                down |-> get_down(g, i),
                downright |-> get_downright(g, i)])
(***************************************************************************)
(* grid.rs: the partition of the grid into divisor x divisor regions.      *)
(***************************************************************************)
\* std::cmp::max
max(a, b) == IF a >= b THEN a ELSE b

\* fn ceiling.  With b = 0 the division panics; the callers below test the
\* divisor first.
ceiling(a, b) == (a + b - 1) \div b

\* nrant resolving the index before it looks at the divisor
nrant_index_first(g, index, divisor) ==
    LET r == grid_index(index, g) IN
    IF ~r.ok THEN r
    ELSE IF divisor < 1 \/ divisor > max(rows(g), columns(g))
         THEN Err("InvalidDivisionSize")
         ELSE LET rheight == ceiling(rows(g), divisor)
                  rwidth == ceiling(columns(g), divisor)
              IN  Ok(((r.val \div columns(g)) \div rheight) * divisor
                       + (r.val % columns(g)) \div rwidth)

\* nrant numbering the regions column-major
nrant_column_major(g, index, divisor) ==
    IF divisor < 1 \/ divisor > max(rows(g), columns(g))
    THEN Err("InvalidDivisionSize")
    ELSE LET r == grid_index(index, g) IN
         IF ~r.ok THEN r
         ELSE LET rheight == ceiling(rows(g), divisor)
                  rwidth == ceiling(columns(g), divisor)
              IN  Ok(((r.val % columns(g)) \div rwidth) * divisor
                       + (r.val \div columns(g)) \div rheight)
\* Grid::nrant
nrant(g, index, divisor) ==
    IF divisor < 1 \/ divisor > max(rows(g), columns(g))
    THEN Err("InvalidDivisionSize")
    ELSE LET r == grid_index(index, g) IN
         IF ~r.ok THEN r
         ELSE LET rheight == ceiling(rows(g), divisor)
                  rwidth == ceiling(columns(g), divisor)
              IN  Ok(((r.val \div columns(g)) \div rheight) * divisor
                       + (r.val % columns(g)) \div rwidth)

\* nrant_start returning the cell it was given instead of the first cell of
\* its region
nrant_start_at_index(g, index, divisor) ==
    LET n == nrant(g, IdxUsize(index), divisor) IN
    IF ~n.ok THEN Panic ELSE Ok(index)
\* Grid::nrant_start: Ok wraps the usize it returns; the expect panics when
\* nrant fails
nrant_start(g, index, divisor) ==
    LET n == nrant(g, IdxUsize(index), divisor) IN
    IF ~n.ok THEN Panic
    ELSE LET x_rants == n.val % divisor
             y_rants == n.val \div divisor
             x_offset == x_rants * ceiling(columns(g), divisor)
             y_offset == (rows(g) \div divisor) * y_rants
         IN  Ok(y_offset * columns(g) + x_offset)

\* Grid::quadrant
quadrant(g, index) == nrant(g, index, 2)

(***************************************************************************)
(* quaditers.rs, row_iters.rs, col_iters.rs: the iterators.  An iterator   *)
(* is a record of its fields; next returns the stepped iterator and the    *)
(* item, Some(item) or None at the end.                                    *)
(***************************************************************************)
\* NrantIterator::new: ceiling(.., divisor) divides by the divisor
NrantIterator_new(g, divisor, index) ==
    IF divisor = 0 THEN Panic
    ELSE LET start == nrant_start(g, index, divisor) IN
         IF IsPanic(start) THEN Panic
         ELSE [current |-> 0,
               start |-> start.val,
               rwidth |-> ceiling(columns(g), divisor),
               rheight |-> ceiling(rows(g), divisor)]

\* NrantIterator::noop
NrantIterator_noop(g) == [current |-> 100, start |-> 0, rwidth |-> 1, rheight |-> 1]

\* next ending the sequence at a slot past the right edge instead of marking it
NrantIterator_next_ending(g, it) ==
    IF it.current >= it.rwidth * it.rheight
    THEN [iter |-> it, item |-> None]
    ELSE LET row_offset == it.current \div it.rwidth
             col_offset == it.current % it.rwidth
             stepped == [it EXCEPT !.current = @ + 1]
         IN  IF col_offset + (it.start % columns(g)) >= columns(g)
             THEN [iter |-> stepped, item |-> None]
             ELSE [iter |-> stepped,
                   item |-> Some(get(g, IdxUsize(it.start + row_offset * columns(g)
                                                   + col_offset)))]
\* <NrantIterator as Iterator>::next: the item is an Option<&T>, None for a
\* slot of the region that holds no cell
NrantIterator_next(g, it) ==
    IF it.current >= it.rwidth * it.rheight
    THEN [iter |-> it, item |-> None]
    ELSE LET row_offset == it.current \div it.rwidth
             col_offset == it.current % it.rwidth
             stepped == [it EXCEPT !.current = @ + 1]
         IN  IF col_offset + (it.start % columns(g)) >= columns(g)
             THEN [iter |-> stepped, item |-> Some(None)]
             ELSE [iter |-> stepped,
                   item |-> Some(get(g, IdxUsize(it.start + row_offset * columns(g)
                                                   + col_offset)))]

\* nrant_iter taking the first cell for an index that does not resolve
nrant_iter_unchecked(g, divisor, index) ==
    LET r == grid_index(index, g) IN
    NrantIterator_new(g, divisor, IF r.ok THEN r.val ELSE 0)

\* Grid::nrant_iter
nrant_iter(g, divisor, index) ==
    LET r == grid_index(index, g) IN
    IF r.ok THEN NrantIterator_new(g, divisor, r.val) ELSE NrantIterator_noop(g)

\* Grid::quadrant_iter
quadrant_iter(g, index) == nrant_iter(g, 2, index)

\* fn row_number, col_number, row_start_index, col_start_index
row_number(g, index) == index \div g.cols
col_number(g, index) == index % g.cols
row_start_index(g, index) == row_number(g, index) * g.cols
col_start_index(g, index) == col_number(g, index)

\* RowIter::new taking the slice from the cell itself instead of the start of
\* its row
RowIter_new_from_index(g, index) ==
    LET row_start == row_start_index(g, index) IN
    IF row_start + g.cols > Len(g.items) THEN Panic
    ELSE [slice |-> SubSeq(g.items, index + 1, row_start + g.cols)]
\* RowIter::new: &grid.items[row_start..row_start + cols] panics past the end
\* of the storage
RowIter_new(g, index) ==
    LET row_start == row_start_index(g, index) IN
    IF row_start + g.cols > Len(g.items) THEN Panic
    ELSE [slice |-> SubSeq(g.items, row_start + 1, row_start + g.cols)]

\* RowIter::noop
RowIter_noop == [slice |-> <<>>]

\* <RowIter as Iterator>::next: slice.next()
RowIter_next(it) ==
    IF it.slice = <<>> THEN [iter |-> it, item |-> None]
    ELSE [iter |-> [it EXCEPT !.slice = Tail(@)], item |-> Some(Head(it.slice))]

\* MutRowIter::new, noop, next
MutRowIter_new(g, index) ==
    LET row_start == row_start_index(g, index) IN
    IF row_start + g.cols > Len(g.items) THEN Panic
    ELSE [slice |-> SubSeq(g.items, row_start + 1, row_start + g.cols)]

MutRowIter_noop == [slice |-> <<>>]

MutRowIter_next(it) ==
    IF it.slice = <<>> THEN [iter |-> it, item |-> None]
    ELSE [iter |-> [it EXCEPT !.slice = Tail(@)], item |-> Some(Head(it.slice))]

\* Grid::row_iter, row_iter_mut
row_iter(g, index) ==
    LET r == grid_index(index, g) IN IF r.ok THEN RowIter_new(g, r.val) ELSE RowIter_noop
row_iter_mut(g, index) ==
    LET r == grid_index(index, g) IN
    IF r.ok THEN MutRowIter_new(g, r.val) ELSE MutRowIter_noop

\* ColIter::new skipping to the cell itself instead of the first cell of its
\* column
ColIter_new_from_index(g, index) ==
    LET col_start == col_start_index(g, index) IN
    IF g.cols = 0 THEN Panic
    ELSE [slice |-> SubSeq(g.items, index + 1, Len(g.items)), step |-> g.cols]
\* ColIter::new: items.iter().skip(col_start).step_by(cols); slice is what the
\* skip leaves, and step_by(0) panics
ColIter_new(g, index) ==
    LET col_start == col_start_index(g, index) IN
    IF g.cols = 0 THEN Panic
    ELSE [slice |-> SubSeq(g.items, col_start + 1, Len(g.items)), step |-> g.cols]

\* ColIter::noop
ColIter_noop == [slice |-> <<>>, step |-> 1]

\* <ColIter as Iterator>::next: StepBy yields the first item it has and drops
\* the step - 1 after it
ColIter_next(it) ==
    IF it.slice = <<>> THEN [iter |-> it, item |-> None]
    ELSE [iter |-> [it EXCEPT !.slice = SubSeq(@, it.step + 1, Len(@))],
          item |-> Some(Head(it.slice))]

\* MutColIter::new, noop, next
MutColIter_new(g, index) ==
    LET col_start == col_start_index(g, index) IN
    IF g.cols = 0 THEN Panic
    ELSE [slice |-> SubSeq(g.items, col_start + 1, Len(g.items)), step |-> g.cols]

MutColIter_noop == [slice |-> <<>>, step |-> 1]

MutColIter_next(it) ==
    IF it.slice = <<>> THEN [iter |-> it, item |-> None]
    ELSE [iter |-> [it EXCEPT !.slice = SubSeq(@, it.step + 1, Len(@))],
          item |-> Some(Head(it.slice))]

\* Grid::col_iter, col_iter_mut
col_iter(g, index) ==
    LET r == grid_index(index, g) IN IF r.ok THEN ColIter_new(g, r.val) ELSE ColIter_noop
col_iter_mut(g, index) ==
    LET r == grid_index(index, g) IN
    IF r.ok THEN MutColIter_new(g, r.val) ELSE MutColIter_noop
(***************************************************************************)
(* Writes through the mutable references, and swap.  Each operator returns *)
(* the grid after the caller's statement and what the statement observed.  *)
(***************************************************************************)
\* the assignment landing one cell after each of the offsets
assign_shifted(g, offsets, v) ==
    [g EXCEPT !.items = [k \in 1..Len(g.items) |-> IF (k - 2) \in offsets THEN v ELSE g.items[k]]]

\* *cell = v for the cells at the storage offsets `offsets`
assign(g, offsets, v) ==
    [g EXCEPT !.items = [k \in 1..Len(g.items) |-> IF (k - 1) \in offsets THEN v ELSE g.items[k]]]

\* if let Some(cell) = <a _mut getter> { *cell = v }: idx is the offset the
\* getter resolved, cell what it returned
write_through(g, idx, cell, v) ==
    IF IsPanic(cell) THEN [grid |-> g, ret |-> Panic]
    ELSE IF IsSome(cell) THEN [grid |-> assign(g, {idx.val}, v), ret |-> Some(v)]
    ELSE [grid |-> g, ret |-> None]

\* if let Some(cell) = grid.get_mut(index) { *cell = v }
write_get_mut(g, index, v) == write_through(g, grid_index(index, g), get_mut(g, index), v)

\* the same through get_up_mut .. get_downright_mut
write_neighbor_mut(g, getter, index, v) ==
    CASE getter = "get_up_mut" -> write_through(g, up_idx(g, index), get_up_mut(g, index), v)
      [] getter = "get_down_mut" -> write_through(g, down_idx(g, index), get_down_mut(g, index), v)
      [] getter = "get_left_mut" -> write_through(g, left_idx(g, index), get_left_mut(g, index), v)
      [] getter = "get_right_mut" ->
            write_through(g, right_idx(g, index), get_right_mut(g, index), v)
      [] getter = "get_upleft_mut" ->
            write_through(g, upleft_idx(g, index), get_upleft_mut(g, index), v)
      [] getter = "get_upright_mut" ->
            write_through(g, upright_idx(g, index), get_upright_mut(g, index), v)
      [] getter = "get_downleft_mut" ->
            write_through(g, downleft_idx(g, index), get_downleft_mut(g, index), v)
      [] getter = "get_downright_mut" ->
            write_through(g, downright_idx(g, index), get_downright_mut(g, index), v)

\* for cell in grid.row_iter_mut(index) { *cell = v }: the slice of MutRowIter
\* borrows the cells from the start of the row on; ret counts the cells written
write_row_iter_mut(g, index, v) ==
    LET it == row_iter_mut(g, index) IN
    IF IsPanic(it) THEN [grid |-> g, ret |-> Panic]
    ELSE IF it.slice = <<>> THEN [grid |-> g, ret |-> Ok(0)]
    ELSE LET row_start == row_start_index(g, grid_index(index, g).val) IN
         [grid |-> assign(g, row_start .. (row_start + Len(it.slice) - 1), v),
          ret |-> Ok(Len(it.slice))]

\* for cell in grid.col_iter_mut(index) { *cell = v }: MutColIter borrows every
\* step-th cell from the start of the column on
write_col_iter_mut(g, index, v) ==
    LET it == col_iter_mut(g, index) IN
    IF IsPanic(it) THEN [grid |-> g, ret |-> Panic]
    ELSE IF it.slice = <<>> THEN [grid |-> g, ret |-> Ok(0)]
    ELSE LET col_start == col_start_index(g, grid_index(index, g).val)
             cells == {o \in col_start .. (Len(g.items) - 1) : (o - col_start) % it.step = 0}
         IN  [grid |-> assign(g, cells, v), ret |-> Ok(Cardinality(cells))]

\* for cell in grid.iter_mut() { *cell = v }: Grid::iter_mut is
\* self.items.iter_mut(), which borrows every cell of the storage in order;
\* ret counts the cells written
write_iter_mut(g, v) ==
    [grid |-> assign(g, 0 .. (Len(g.items) - 1), v), ret |-> Ok(Len(g.items))]

\* Grid::swap: Ok(()) is modelled as Ok(TRUE); Vec::swap panics on an offset
\* outside 0 .. len-1
swap(g, a, b) ==
    LET ra == grid_index(a, g)
        rb == grid_index(b, g)
    IN  IF ~ra.ok THEN [grid |-> g, ret |-> ra]
        ELSE IF ~rb.ok THEN [grid |-> g, ret |-> rb]
        ELSE IF ra.val >= Len(g.items) \/ rb.val >= Len(g.items)
             THEN [grid |-> g, ret |-> Panic]
        ELSE [grid |-> [g EXCEPT !.items = [@ EXCEPT ![ra.val + 1] = g.items[rb.val + 1],
                                                     ![rb.val + 1] = g.items[ra.val + 1]]],
              ret |-> Ok(TRUE)]
(***************************************************************************)
(* The inputs the callers draw from.                                       *)
(***************************************************************************)
Max(a, b) == IF a >= b THEN a ELSE b

\* 0, 1, .., n-1: the cell values of the grids of the model, so that a cell's
\* value names the storage offset it was built at
Iota(n) == [i \in 1..n |-> i - 1]

\* r rows of c cells holding 0 .. r*c-1 row-major
Rect(r, c) == [i \in 1..r |-> [j \in 1..c |-> (i - 1) * c + (j - 1)]]

\* the same with the last row one cell short
Ragged(r, c) ==
    [i \in 1..r |-> [j \in 1..(IF i = r THEN c - 1 ELSE c) |-> (i - 1) * c + (j - 1)]]

\* r rows of c cells after an empty first row
EmptyFirst(r, c) ==
    [i \in 1..r |-> [j \in 1..(IF i = 1 THEN 0 ELSE c) |-> (i - 1) * c + (j - 1)]]
NestedInputs ==
    {[kind |-> "vec2d", v |-> Rect(r, c)] : r \in 0..MaxDim, c \in 0..MaxDim}
    \cup {[kind |-> "vec2d", v |-> Ragged(r, c)] : r \in 2..MaxDim, c \in 1..MaxDim}
    \cup {[kind |-> "vec2d", v |-> EmptyFirst(r, c)] : r \in 2..MaxDim, c \in 1..MaxDim}

\* (pattern, row count) and (&pattern, row count), the pattern holding 0, 1, ..
PatternInputs ==
    {[kind |-> k, v |-> Iota(len), n |-> n] :
        k \in {"pattern", "pattern_ref"}, len \in 0..MaxDim, n \in 0..MaxDim}

\* (columns, rows, value)
FillInputs ==
    {[kind |-> "fill", cols |-> c, rows |-> r, value |-> v] :
        c \in 0..MaxDim, r \in 0..MaxDim, v \in {0, 7}}
AllOptions ==
    [origin : Origin, inverted_y : BOOLEAN, neighbor_ybased : BOOLEAN,
     wrap_x : BOOLEAN, wrap_y : BOOLEAN]

\* every origin and inversion, the other options at their defaults
IndexOptions ==
    {[GridOptionsDefault EXCEPT !.origin = o, !.inverted_y = b] : o \in Origin, b \in BOOLEAN}

OptionInputs(O) == {None} \cup {Some(o) : o \in O}

\* logical coordinates from one past the far edge on either side
CoordRange(g) == (0 - Max(g.rows, g.cols)) .. Max(g.rows, g.cols)

PairInputs(g) == {IdxPair(x, y) : x \in CoordRange(g), y \in CoordRange(g)}
CoordinatesInputs(g) == {IdxCoordinates(x, y) : x \in CoordRange(g), y \in CoordRange(g)}
UsizeInputs(g) == {IdxUsize(i) : i \in 0..(size(g) + 1)}
IndexInputs(g) == PairInputs(g) \cup CoordinatesInputs(g) \cup UsizeInputs(g)

\* divisors from 0 to one past the longer side of the grid
DivisorInputs(g) == 0..(Max(g.rows, g.cols) + 1)
\* the value the writers store, not a value of a built grid
WriteValues == {100}

\* (columns, rows) of new_from_1d: small sizes, and usize::MAX beside a size of
\* at least 1 (beside 0 the product is 0 and the grid built has usize::MAX
\* rows or columns and no cell)
DimInputs ==
    ((0..MaxDim) \X (0..MaxDim))
    \cup {<<USIZE_MAX, k>> : k \in 1..MaxDim}
    \cup {<<k, USIZE_MAX>> : k \in 1..MaxDim}

\* the options of the grids that are written: the defaults, and wrapping grids
\* with the origin at the lower left and at the centre
WriteOptions ==
    {[GridOptionsDefault EXCEPT !.origin = o, !.wrap_x = TRUE, !.wrap_y = TRUE] :
        o \in {"LowerLeft", "Center"}}

\* the arguments of swap
SwapInputs(g) == PairInputs(g) \cup UsizeInputs(g)

\* the getters whose reference the neighbour writers assign through
MutNeighbors ==
    {"get_up_mut", "get_down_mut", "get_left_mut", "get_right_mut",
     "get_upleft_mut", "get_upright_mut", "get_downleft_mut", "get_downright_mut"}
(***************************************************************************)
(* The state machine: a caller constructs a grid, then calls it.  A failed  *)
(* construction leaves the caller without a grid, as at the start.  The    *)
(* read-only calls leave the grid as it was, so each is followed from the  *)
(* state in which the grid was last built: that reaches every pair of a    *)
(* grid and a call on it.                                                  *)
(***************************************************************************)
\* no grid was requested yet
Start == last.op = "none"

\* the grid was just built
Fresh == HasGrid /\ last.op \in {"new", "new_from_1d"}

Init ==
    /\ grid = NoGrid
    /\ last = [op |-> "none"]

\* Grid::new(items, options) on a nested vector
New(O) ==
    /\ Start
    /\ \E items \in NestedInputs, options \in OptionInputs(O) :
          LET r == new(items, options) IN
          /\ grid' = IF r.ok THEN r.val ELSE grid
          /\ last' = [op |-> "new", items |-> items, options |-> options, ret |-> r]

\* Grid::new(items, options) on a (pattern, row count) tuple
NewPattern(O) ==
    /\ Start
    /\ \E items \in PatternInputs, options \in OptionInputs(O) :
          LET r == new(items, options) IN
          /\ grid' = IF r.ok THEN r.val ELSE grid
          /\ last' = [op |-> "new", items |-> items, options |-> options, ret |-> r]

\* Grid::new(items, options) on a (columns, rows, value) tuple
NewFill(O) ==
    /\ Start
    /\ \E items \in FillInputs, options \in OptionInputs(O) :
          LET r == new(items, options) IN
          /\ grid' = IF r.ok THEN r.val ELSE grid
          /\ last' = [op |-> "new", items |-> items, options |-> options, ret |-> r]
\* Grid::new_from_1d(vec, columns, rows, options)
NewFrom1d(O) ==
    /\ Start
    /\ \E d \in DimInputs, n \in 0..(MaxDim * MaxDim), options \in OptionInputs(O) :
          LET c == d[1]
              r == d[2]
              ret == new_from_1d(Iota(n), c, r, options)
          IN
          /\ grid' = IF ret.ok THEN ret.val ELSE grid
          /\ last' = [op |-> "new_from_1d", len |-> n, cols |-> c, rows |-> r,
                      options |-> options, ret |-> ret]

\* index.grid_index(&grid)
GridIndex ==
    /\ Fresh
    /\ \E index \in IndexInputs(grid) :
          last' = [op |-> "grid_index", index |-> index, ret |-> grid_index(index, grid)]
    /\ UNCHANGED grid

\* Index::output(index, &grid) for an offset of the storage
Output ==
    /\ Fresh
    /\ \E kind \in {"usize", "pair", "coord"}, i \in 0..(size(grid) - 1) :
          last' = [op |-> "output", kind |-> kind, index |-> i, ret |-> output(kind, i, grid)]
    /\ UNCHANGED grid

\* grid.get(index)
Get ==
    /\ Fresh
    /\ \E index \in IndexInputs(grid) :
          last' = [op |-> "get", index |-> index, ret |-> get(grid, index)]
    /\ UNCHANGED grid

\* grid.get_up(index)
GetUp ==
    /\ Fresh
    /\ \E index \in IndexInputs(grid) :
          last' = [op |-> "get_up", index |-> index, idx |-> up_idx(grid, index),
                   ret |-> get_up(grid, index)]
    /\ UNCHANGED grid

\* grid.get_down(index)
GetDown ==
    /\ Fresh
    /\ \E index \in IndexInputs(grid) :
          last' = [op |-> "get_down", index |-> index, idx |-> down_idx(grid, index),
                   ret |-> get_down(grid, index)]
    /\ UNCHANGED grid

\* grid.get_left(index)
GetLeft ==
    /\ Fresh
    /\ \E index \in IndexInputs(grid) :
          last' = [op |-> "get_left", index |-> index, idx |-> left_idx(grid, index),
                   ret |-> get_left(grid, index)]
    /\ UNCHANGED grid

\* grid.get_right(index)
GetRight ==
    /\ Fresh
    /\ \E index \in IndexInputs(grid) :
          last' = [op |-> "get_right", index |-> index, idx |-> right_idx(grid, index),
                   ret |-> get_right(grid, index)]
    /\ UNCHANGED grid

\* grid.get_upleft(index)
GetUpLeft ==
    /\ Fresh
    /\ \E index \in IndexInputs(grid) :
          last' = [op |-> "get_upleft", index |-> index, idx |-> upleft_idx(grid, index),
                   ret |-> get_upleft(grid, index)]
    /\ UNCHANGED grid

\* grid.get_upright(index)
GetUpRight ==
    /\ Fresh
    /\ \E index \in IndexInputs(grid) :
          last' = [op |-> "get_upright", index |-> index, idx |-> upright_idx(grid, index),
                   ret |-> get_upright(grid, index)]
    /\ UNCHANGED grid

\* grid.get_downleft(index)
GetDownLeft ==
    /\ Fresh
    /\ \E index \in IndexInputs(grid) :
          last' = [op |-> "get_downleft", index |-> index, idx |-> downleft_idx(grid, index),
                   ret |-> get_downleft(grid, index)]
    /\ UNCHANGED grid

\* grid.get_downright(index)
GetDownRight ==
    /\ Fresh
    /\ \E index \in IndexInputs(grid) :
          last' = [op |-> "get_downright", index |-> index, idx |-> downright_idx(grid, index),
                   ret |-> get_downright(grid, index)]
    /\ UNCHANGED grid

\* grid.xy_neighbors(index)
XyNeighbors ==
    /\ Fresh
    /\ \E index \in IndexInputs(grid) :
          last' = [op |-> "xy_neighbors", index |-> index,
                   ret |-> xy_neighbors(grid, index)]
    /\ UNCHANGED grid

\* grid.all_around_neighbors(index)
AllAroundNeighbors ==
    /\ Fresh
    /\ \E index \in IndexInputs(grid) :
          last' = [op |-> "all_around_neighbors", index |-> index,
                   ret |-> all_around_neighbors(grid, index)]
    /\ UNCHANGED grid
\* grid.get_mut(index), the reference not written through
GetMut ==
    /\ Fresh
    /\ \E index \in IndexInputs(grid) :
          last' = [op |-> "get_mut", index |-> index, ret |-> get_mut(grid, index)]
    /\ UNCHANGED grid

\* grid.get_up_mut(index), the reference not written through
GetUpMut ==
    /\ Fresh
    /\ \E index \in IndexInputs(grid) :
          last' = [op |-> "get_up_mut", index |-> index, idx |-> up_idx(grid, index),
                   ret |-> get_up_mut(grid, index)]
    /\ UNCHANGED grid

\* grid.get_down_mut(index), the reference not written through
GetDownMut ==
    /\ Fresh
    /\ \E index \in IndexInputs(grid) :
          last' = [op |-> "get_down_mut", index |-> index, idx |-> down_idx(grid, index),
                   ret |-> get_down_mut(grid, index)]
    /\ UNCHANGED grid

\* grid.get_left_mut(index), the reference not written through
GetLeftMut ==
    /\ Fresh
    /\ \E index \in IndexInputs(grid) :
          last' = [op |-> "get_left_mut", index |-> index, idx |-> left_idx(grid, index),
                   ret |-> get_left_mut(grid, index)]
    /\ UNCHANGED grid

\* grid.get_right_mut(index), the reference not written through
GetRightMut ==
    /\ Fresh
    /\ \E index \in IndexInputs(grid) :
          last' = [op |-> "get_right_mut", index |-> index, idx |-> right_idx(grid, index),
                   ret |-> get_right_mut(grid, index)]
    /\ UNCHANGED grid

\* grid.get_upleft_mut(index), the reference not written through
GetUpLeftMut ==
    /\ Fresh
    /\ \E index \in IndexInputs(grid) :
          last' = [op |-> "get_upleft_mut", index |-> index, idx |-> upleft_idx(grid, index),
                   ret |-> get_upleft_mut(grid, index)]
    /\ UNCHANGED grid

\* grid.get_upright_mut(index), the reference not written through
GetUpRightMut ==
    /\ Fresh
    /\ \E index \in IndexInputs(grid) :
          last' = [op |-> "get_upright_mut", index |-> index, idx |-> upright_idx(grid, index),
                   ret |-> get_upright_mut(grid, index)]
    /\ UNCHANGED grid

\* grid.get_downleft_mut(index), the reference not written through
GetDownLeftMut ==
    /\ Fresh
    /\ \E index \in IndexInputs(grid) :
          last' = [op |-> "get_downleft_mut", index |-> index, idx |-> downleft_idx(grid, index),
                   ret |-> get_downleft_mut(grid, index)]
    /\ UNCHANGED grid

\* grid.get_downright_mut(index), the reference not written through
GetDownRightMut ==
    /\ Fresh
    /\ \E index \in IndexInputs(grid) :
          last' = [op |-> "get_downright_mut", index |-> index, idx |-> downright_idx(grid, index),
                   ret |-> get_downright_mut(grid, index)]
    /\ UNCHANGED grid
\* the number of next() calls that returned the end of the sequence
Ends(y) == Cardinality({k \in 1..Len(y) : y[k] = None})

\* the caller holds an iterator made by one of the calls `ops` and goes on
\* calling next(), until MaxEnds calls have returned the end
Iterating(ops) ==
    /\ HasGrid
    /\ last.op \in ops
    /\ ~IsPanic(last.iter)
    /\ Ends(last.yielded) < MaxEnds
    /\ Len(last.yielded) < MaxDim * MaxDim + MaxEnds

\* next() was called: the iterator is stepped and the item recorded
Stepped(n) == last' = [last EXCEPT !.iter = n.iter, !.yielded = Append(@, n.item)]

\* grid.row_iter(index)
RowIter ==
    /\ Fresh
    /\ \E index \in IndexInputs(grid) :
          last' = [op |-> "row_iter", index |-> index, iter |-> row_iter(grid, index),
                   yielded |-> <<>>]
    /\ UNCHANGED grid

\* next() on the iterator of row_iter
RowIterNext ==
    /\ Iterating({"row_iter"})
    /\ Stepped(RowIter_next(last.iter))
    /\ UNCHANGED grid

\* grid.row_iter_mut(index), the references not written through
RowIterMut ==
    /\ Fresh
    /\ \E index \in IndexInputs(grid) :
          last' = [op |-> "row_iter_mut", index |-> index,
                   iter |-> row_iter_mut(grid, index), yielded |-> <<>>]
    /\ UNCHANGED grid

\* next() on the iterator of row_iter_mut
MutRowIterNext ==
    /\ Iterating({"row_iter_mut"})
    /\ Stepped(MutRowIter_next(last.iter))
    /\ UNCHANGED grid

\* grid.col_iter(index)
ColIter ==
    /\ Fresh
    /\ \E index \in IndexInputs(grid) :
          last' = [op |-> "col_iter", index |-> index, iter |-> col_iter(grid, index),
                   yielded |-> <<>>]
    /\ UNCHANGED grid

\* next() on the iterator of col_iter
ColIterNext ==
    /\ Iterating({"col_iter"})
    /\ Stepped(ColIter_next(last.iter))
    /\ UNCHANGED grid

\* grid.col_iter_mut(index), the references not written through
ColIterMut ==
    /\ Fresh
    /\ \E index \in IndexInputs(grid) :
          last' = [op |-> "col_iter_mut", index |-> index,
                   iter |-> col_iter_mut(grid, index), yielded |-> <<>>]
    /\ UNCHANGED grid

\* next() on the iterator of col_iter_mut
MutColIterNext ==
    /\ Iterating({"col_iter_mut"})
    /\ Stepped(MutColIter_next(last.iter))
    /\ UNCHANGED grid

\* grid.nrant_iter(divisor, index)
NrantIter ==
    /\ Fresh
    /\ \E index \in IndexInputs(grid), divisor \in DivisorInputs(grid) :
          last' = [op |-> "nrant_iter", index |-> index, divisor |-> divisor,
                   iter |-> nrant_iter(grid, divisor, index), yielded |-> <<>>]
    /\ UNCHANGED grid

\* grid.quadrant_iter(index)
QuadrantIter ==
    /\ Fresh
    /\ \E index \in IndexInputs(grid) :
          last' = [op |-> "quadrant_iter", index |-> index, divisor |-> 2,
                   iter |-> quadrant_iter(grid, index), yielded |-> <<>>]
    /\ UNCHANGED grid

\* next() on the iterator of nrant_iter or quadrant_iter
NrantIteratorNext ==
    /\ Iterating({"nrant_iter", "quadrant_iter"})
    /\ Stepped(NrantIterator_next(grid, last.iter))
    /\ UNCHANGED grid
\* grid.nrant(index, divisor)
Nrant ==
    /\ Fresh
    /\ \E index \in IndexInputs(grid), divisor \in DivisorInputs(grid) :
          last' = [op |-> "nrant", index |-> index, divisor |-> divisor,
                   ret |-> nrant(grid, index, divisor)]
    /\ UNCHANGED grid

\* grid.quadrant(index)
Quadrant ==
    /\ Fresh
    /\ \E index \in IndexInputs(grid) :
          last' = [op |-> "quadrant", index |-> index, divisor |-> 2,
                   ret |-> quadrant(grid, index)]
    /\ UNCHANGED grid
\* the vector 1, 2, .., 81 of the 9x9 grid of quaditers.rs and nrant_iter's doc
Sudoku == [i \in 1..81 |-> i]

\* Grid::new_from_1d(vec, 9, 9, None) on that vector
NewSudoku ==
    /\ Start
    /\ LET ret == new_from_1d(Sudoku, 9, 9, None) IN
       /\ grid' = IF ret.ok THEN ret.val ELSE grid
       /\ last' = [op |-> "new_from_1d", len |-> Len(Sudoku), cols |-> 9, rows |-> 9,
                   options |-> None, ret |-> ret]
\* grid.max_x()
MaxX ==
    /\ Fresh
    /\ origin(grid) \in OriginRs
    /\ last' = [op |-> "max_x", ret |-> max_x(grid)]
    /\ UNCHANGED grid

\* grid.max_y()
MaxY ==
    /\ Fresh
    /\ origin(grid) \in OriginRs
    /\ last' = [op |-> "max_y", ret |-> max_y(grid)]
    /\ UNCHANGED grid

\* grid.min_x()
MinX ==
    /\ Fresh
    /\ origin(grid) \in OriginRs
    /\ last' = [op |-> "min_x", ret |-> min_x(grid)]
    /\ UNCHANGED grid

\* grid.min_y()
MinY ==
    /\ Fresh
    /\ origin(grid) \in OriginRs
    /\ last' = [op |-> "min_y", ret |-> min_y(grid)]
    /\ UNCHANGED grid
\* grid.nrant_start(index, divisor), crate-internal and called by the tests
NrantStart ==
    /\ Fresh
    /\ \E index \in UsizeInputs(grid), divisor \in DivisorInputs(grid) :
          last' = [op |-> "nrant_start", index |-> index, divisor |-> divisor,
                   ret |-> nrant_start(grid, index.i, divisor)]
    /\ UNCHANGED grid
\* The writing calls.  A write is made on the grid as built or, on grids of up
\* to MaxSeqDim rows and columns, after up to MaxWrites - 1 earlier writes, the
\* last of which reached a cell (a call that reached none left the grid as it
\* was); last keeps the grid as built (orig) and as it was before the call
\* (before).
WriteOps ==
    {"write_get_mut", "write_neighbor_mut", "write_row_iter_mut", "write_col_iter_mut",
     "write_iter_mut", "swap"}
ReachedCell ==
    /\ ~IsPanic(last.ret)
    /\ CASE last.op = "swap" -> last.ret.ok
         [] last.op \in {"write_get_mut", "write_neighbor_mut"} -> IsSome(last.ret)
         [] OTHER -> last.ret.val > 0
Writable ==
    /\ HasGrid
    /\ \/ Fresh
       \/ /\ last.op \in WriteOps
          /\ ReachedCell
          /\ last.writes < MaxWrites
          /\ grid.rows <= MaxSeqDim
          /\ grid.cols <= MaxSeqDim
Orig == IF Fresh THEN grid ELSE last.orig
Writes == IF Fresh THEN 0 ELSE last.writes

\* if let Some(cell) = grid.get_mut(index) { *cell = v }
WriteGetMut ==
    /\ Writable
    /\ \E index \in IndexInputs(grid), v \in WriteValues :
          LET w == write_get_mut(grid, index, v) IN
          /\ grid' = w.grid
          /\ last' = [op |-> "write_get_mut", index |-> index, value |-> v, before |-> grid,
                      orig |-> Orig, writes |-> Writes + 1, ret |-> w.ret]

\* if let Some(cell) = grid.get_up_mut(index) { *cell = v }, and the same
\* through the other seven neighbour getters
WriteNeighborMut ==
    /\ Writable
    /\ \E getter \in MutNeighbors, index \in IndexInputs(grid), v \in WriteValues :
          LET w == write_neighbor_mut(grid, getter, index, v) IN
          /\ grid' = w.grid
          /\ last' = [op |-> "write_neighbor_mut", getter |-> getter, index |-> index,
                      value |-> v, before |-> grid, orig |-> Orig, writes |-> Writes + 1,
                      ret |-> w.ret]

\* for cell in grid.row_iter_mut(index) { *cell = v }
WriteRowIterMut ==
    /\ Writable
    /\ \E index \in IndexInputs(grid), v \in WriteValues :
          LET w == write_row_iter_mut(grid, index, v) IN
          /\ grid' = w.grid
          /\ last' = [op |-> "write_row_iter_mut", index |-> index, value |-> v,
                      before |-> grid, orig |-> Orig, writes |-> Writes + 1, ret |-> w.ret]

\* for cell in grid.col_iter_mut(index) { *cell = v }
WriteColIterMut ==
    /\ Writable
    /\ \E index \in IndexInputs(grid), v \in WriteValues :
          LET w == write_col_iter_mut(grid, index, v) IN
          /\ grid' = w.grid
          /\ last' = [op |-> "write_col_iter_mut", index |-> index, value |-> v,
                      before |-> grid, orig |-> Orig, writes |-> Writes + 1, ret |-> w.ret]

\* for cell in grid.iter_mut() { *cell = v }
WriteIterMut ==
    /\ Writable
    /\ \E v \in WriteValues :
          LET w == write_iter_mut(grid, v) IN
          /\ grid' = w.grid
          /\ last' = [op |-> "write_iter_mut", value |-> v, before |-> grid, orig |-> Orig,
                      writes |-> Writes + 1, ret |-> w.ret]

\* grid.swap(a, b), a and b of one index type
Swap ==
    /\ Writable
    /\ \E a \in SwapInputs(grid), b \in SwapInputs(grid) :
          LET w == swap(grid, a, b) IN
          /\ a.kind = b.kind
          /\ grid' = w.grid
          /\ last' = [op |-> "swap", a |-> a, b |-> b, before |-> grid, orig |-> Orig,
                      writes |-> Writes + 1, ret |-> w.ret]
\* Coordinate resolution under every origin and inversion
NextIndex == New(IndexOptions) \/ NewFrom1d(IndexOptions) \/ GridIndex \/ Output \/ Get
SpecIndex == Init /\ [][NextIndex]_vars

\* Vertical neighbours under every option record
NextNeighbor == New(AllOptions) \/ NewFrom1d(AllOptions) \/ Get \/ GetUp \/ GetDown
SpecNeighbor == Init /\ [][NextNeighbor]_vars

\* The four cardinal neighbours under every option record
NextCardinal ==
    New(AllOptions) \/ NewFrom1d(AllOptions) \/ GetUp \/ GetDown \/ GetLeft \/ GetRight
SpecCardinal == Init /\ [][NextCardinal]_vars

\* The four diagonal neighbours under every option record
NextDiagonal ==
    \/ New(AllOptions)
    \/ NewFrom1d(AllOptions)
    \/ GetUpLeft
    \/ GetUpRight
    \/ GetDownLeft
    \/ GetDownRight
SpecDiagonal == Init /\ [][NextDiagonal]_vars

\* The neighbour records under every option record
NextAround == New(AllOptions) \/ NewFrom1d(AllOptions) \/ XyNeighbors \/ AllAroundNeighbors
SpecAround == Init /\ [][NextAround]_vars
\* Every accessor that turns a failed resolution into an absent result, under
\* every origin and inversion
NextAbsent ==
    \/ NewFrom1d(IndexOptions)
    \/ Get \/ GetMut
    \/ GetUp \/ GetDown \/ GetLeft \/ GetRight
    \/ GetUpLeft \/ GetUpRight \/ GetDownLeft \/ GetDownRight
    \/ GetUpMut \/ GetDownMut \/ GetLeftMut \/ GetRightMut
    \/ GetUpLeftMut \/ GetUpRightMut \/ GetDownLeftMut \/ GetDownRightMut
    \/ RowIter \/ RowIterNext \/ RowIterMut \/ MutRowIterNext
    \/ ColIter \/ ColIterNext \/ ColIterMut \/ MutColIterNext
    \/ NrantIter \/ QuadrantIter \/ NrantIteratorNext
SpecAbsent == Init /\ [][NextAbsent]_vars
\* The region id of a cell under every origin and inversion
NextNrant == New(IndexOptions) \/ NewFrom1d(IndexOptions) \/ Nrant \/ Quadrant
SpecNrant == Init /\ [][NextNrant]_vars
\* Region iteration under every origin and inversion
NextNrantIter ==
    \/ New(IndexOptions)
    \/ NewFrom1d(IndexOptions)
    \/ NrantIter
    \/ QuadrantIter
    \/ NrantIteratorNext
SpecNrantIter == Init /\ [][NextNrantIter]_vars
\* Region ids and region iteration on the grids of the model and on the 9x9
\* grid holding 1..81
NextRegion ==
    \/ New(IndexOptions)
    \/ NewFrom1d(IndexOptions)
    \/ NewSudoku
    \/ Nrant
    \/ NrantIter
    \/ NrantIteratorNext
SpecRegion == Init /\ [][NextRegion]_vars
\* Row iteration under every origin and inversion
NextRowIter ==
    \/ New(IndexOptions)
    \/ NewFrom1d(IndexOptions)
    \/ RowIter
    \/ RowIterNext
    \/ RowIterMut
    \/ MutRowIterNext
SpecRowIter == Init /\ [][NextRowIter]_vars
\* Column iteration under every origin and inversion
NextColIter ==
    \/ New(IndexOptions)
    \/ NewFrom1d(IndexOptions)
    \/ ColIter
    \/ ColIterNext
    \/ ColIterMut
    \/ MutColIterNext
SpecColIter == Init /\ [][NextColIter]_vars
\* Every constructor, and get on the grid it built
NextConstruct ==
    \/ New(IndexOptions)
    \/ NewPattern(IndexOptions)
    \/ NewFill(IndexOptions)
    \/ NewFrom1d(IndexOptions)
    \/ Get
SpecConstruct == Init /\ [][NextConstruct]_vars
\* The coordinate range accessors on grids of every origin and inversion
NextExtent ==
    \/ New(IndexOptions)
    \/ NewFrom1d(IndexOptions)
    \/ MaxX
    \/ MaxY
    \/ MinX
    \/ MinY
SpecExtent == Init /\ [][NextExtent]_vars
\* Region ids and region starts under every origin and inversion
NextRegionStart ==
    \/ New(IndexOptions)
    \/ NewFrom1d(IndexOptions)
    \/ Nrant
    \/ NrantStart
SpecRegionStart == Init /\ [][NextRegionStart]_vars
\* Writes and swaps, alone and in sequence
NextWrite ==
    \/ New(WriteOptions)
    \/ WriteGetMut
    \/ WriteNeighborMut
    \/ WriteRowIterMut
    \/ WriteColIterMut
    \/ WriteIterMut
    \/ Swap
SpecWrite == Init /\ [][NextWrite]_vars
\* Swaps under every origin and inversion
NextSwap == New(IndexOptions) \/ Swap
SpecSwap == Init /\ [][NextSwap]_vars
\* The 5x5 grid holding 0..24 row-major, origin UpperLeft, under each setting of
\* inverted_y and neighbor_ybased, unwrapped or wrapped on both axes
Scenario5x5 == [kind |-> "vec2d", v |-> Rect(5, 5)]

ScenarioOptions ==
    {[GridOptionsDefault EXCEPT !.inverted_y = a, !.neighbor_ybased = b,
                                !.wrap_x = w, !.wrap_y = w] :
        a \in BOOLEAN, b \in BOOLEAN, w \in BOOLEAN}

NewScenario ==
    /\ Start
    /\ \E options \in OptionInputs(ScenarioOptions) :
          LET r == new(Scenario5x5, options) IN
          /\ grid' = IF r.ok THEN r.val ELSE grid
          /\ last' = [op |-> "new", items |-> Scenario5x5, options |-> options, ret |-> r]

NextScenario == NewScenario \/ Get \/ GetUp \/ GetDown
SpecScenario == Init /\ [][NextScenario]_vars

\* Every action under every option record
Next ==
    \/ New(AllOptions)
    \/ NewFrom1d(AllOptions)
    \/ NewScenario
    \/ GridIndex
    \/ Output
    \/ Get
    \/ GetUp
    \/ GetDown
    \/ GetLeft
    \/ GetRight
    \/ GetUpLeft
    \/ GetUpRight
    \/ GetDownLeft
    \/ GetDownRight
    \/ XyNeighbors
    \/ AllAroundNeighbors
    \/ GetMut
    \/ GetUpMut
    \/ GetDownMut
    \/ GetLeftMut
    \/ GetRightMut
    \/ GetUpLeftMut
    \/ GetUpRightMut
    \/ GetDownLeftMut
    \/ GetDownRightMut
    \/ RowIter
    \/ RowIterNext
    \/ RowIterMut
    \/ MutRowIterNext
    \/ ColIter
    \/ ColIterNext
    \/ ColIterMut
    \/ MutColIterNext
    \/ NrantIter
    \/ QuadrantIter
    \/ NrantIteratorNext
    \/ Nrant
    \/ Quadrant
    \/ NewSudoku
    \/ NewPattern(AllOptions)
    \/ NewFill(AllOptions)
    \/ MaxX
    \/ MaxY
    \/ MinX
    \/ MinY
    \/ NrantStart
    \/ WriteGetMut
    \/ WriteNeighborMut
    \/ WriteRowIterMut
    \/ WriteColIterMut
    \/ WriteIterMut
    \/ Swap
Spec == Init /\ [][Next]_vars

(***************************************************************************)
(* Properties.                                                             *)
(***************************************************************************)
\* the last call resolved a signed pair or a Coordinates record
ResolvedXY == last.op = "grid_index" /\ last.index.kind \in {"pair", "coord"}

\* the storage (column, row) of a logical coordinate: y-inversion, then the
\* origin's translation
Canonical(g, p) == adjust_from_origin(g, p.x, invert_y(g, p.y))
InGrid(g, c) == 0 <= c[1] /\ c[1] < g.cols /\ 0 <= c[2] /\ c[2] < g.rows

\* C1: round trip.  For every grid, origin and inversion, a logical coordinate
\* that grid_index accepts (pair or Coordinates) comes back from output of the
\* offset it resolved to, and output(i) of every offset i of the storage
\* resolves back to i.
C1_RoundTrip ==
    /\ (ResolvedXY /\ last.ret.ok)
          => output(last.index.kind, last.ret.val, grid) = last.index
    /\ (last.op = "output" /\ last.kind \in {"pair", "coord"})
          => grid_index(last.ret, grid) = Ok(last.index)

\* C2: bijection.  The logical coordinates grid_index accepts on a grid of
\* N = rows*cols cells are exactly N, and they resolve to N pairwise distinct
\* offsets in 0 .. N-1.
C2_Bijection ==
    Fresh =>
        LET N == grid.rows * grid.cols
            A == {p \in PairInputs(grid) : grid_index(p, grid).ok}
        IN  /\ Cardinality(A) = N
            /\ \A p \in A : grid_index(p, grid).val \in 0..(N - 1)
            /\ \A p, q \in A : p # q => grid_index(p, grid).val # grid_index(q, grid).val

\* C3: every offset grid_index returns Ok for is below rows*cols, so get never
\* indexes the storage out of range.
C3_OffsetInRange ==
    /\ (last.op = "grid_index" /\ last.ret.ok) => last.ret.val < grid.rows * grid.cols
    /\ (last.op \in {"get", "get_up", "get_down"}) => ~IsPanic(last.ret)

\* C5: the bounds check is exact.  A logical (x, y) is accepted if and only if
\* its storage column and row are inside the grid, it then resolves to
\* row * cols + column, and every other (x, y) fails with IndexOutOfBounds.
C5_BoundsExact ==
    ResolvedXY =>
        LET c == Canonical(grid, last.index) IN
        IF InGrid(grid, c)
        THEN last.ret = Ok(c[2] * grid.cols + c[1])
        ELSE last.ret = Err("IndexOutOfBounds")

\* the options the caller asked for, None standing for the defaults
Requested == unwrap_or_default(last.options)

\* C4 as claimed: a Center grid is constructed only with odd rows and odd
\* cols, an even side failing with InvalidSize.
C4_CenterOdd ==
    /\ (HasGrid /\ origin(grid) = "Center") => (grid.rows % 2 = 1 /\ grid.cols % 2 = 1)
    /\ (last.op = "new_from_1d" /\ Requested.origin = "Center"
            /\ (last.rows % 2 = 0 \/ last.cols % 2 = 0))
          => last.ret = Err("InvalidSize")

\* C4 as amended: construction does not look at the origin.  Grid::new on a
\* nested vector succeeds exactly when there is a first row, it is not empty
\* and every row has its length, and new_from_1d exactly when the vector holds
\* rows*cols items, for Center as for every other origin; the grid then has
\* the requested shape and options, with rows or cols even or odd.
C4_OriginNotChecked ==
    /\ last.op = "new" =>
          LET v == last.items.v
              wellformed ==
                  /\ Len(v) >= 1
                  /\ Len(v[1]) >= 1
                  /\ \A i \in 1..Len(v) : Len(v[i]) = Len(v[1])
          IN  /\ last.ret.ok <=> wellformed
              /\ last.ret.ok =>
                    /\ grid.rows = Len(v)
                    /\ grid.cols = Len(v[1])
                    /\ grid.options = Requested
    /\ last.op = "new_from_1d" =>
          /\ last.ret.ok <=> last.len = last.rows * last.cols
          /\ last.ret.ok =>
                /\ grid.rows = last.rows
                /\ grid.cols = last.cols
                /\ grid.options = Requested

\* a Center grid with an even number of rows was constructed from nested rows
C4_Witness ==
    /\ last.op = "new"
    /\ last.ret.ok
    /\ origin(grid) = "Center"
    /\ grid.rows % 2 = 0
    /\ grid.rows >= 2

\* C6: UpperLeft addressing.  With inverted_y the accepted coordinates are
\* exactly 0 <= x < cols, 0 <= y < rows and (x, y) resolves to y*cols + x;
\* without it the accepted y are -(rows-1) .. 0 and (x, y) resolves to
\* (-y)*cols + x.
C6_UpperLeft ==
    (ResolvedXY /\ origin(grid) = "UpperLeft") =>
        LET x == last.index.x
            y == last.index.y
        IN  IF grid.options.inverted_y
            THEN /\ last.ret.ok <=> (0 <= x /\ x < grid.cols /\ 0 <= y /\ y < grid.rows)
                 /\ last.ret.ok => last.ret.val = y * grid.cols + x
            ELSE /\ last.ret.ok <=> (0 <= x /\ x < grid.cols /\ 0 - (grid.rows - 1) <= y /\ y <= 0)
                 /\ last.ret.ok => last.ret.val = (-y) * grid.cols + x

\* an inverted UpperLeft grid resolved a coordinate off its first row and column
C6_Witness ==
    /\ ResolvedXY
    /\ origin(grid) = "UpperLeft"
    /\ grid.options.inverted_y
    /\ last.index.x > 0
    /\ last.index.y > 0
    /\ last.ret.ok

\* the 5x5 grid holding 0..24 row-major
Is5x5 == HasGrid /\ grid.rows = 5 /\ grid.cols = 5 /\ grid.items = Iota(25)
Called(op, index) == last.op = op /\ last.index = index

\* C7 as claimed: on the 5x5 grid with origin UpperLeft, inverted_y = true and
\* the other options at their defaults, get((2,-1)) is 7, get_up((2,-1)) is 2
\* and get_down((2,-1)) is 12.
C7_Scenario ==
    (Is5x5 /\ grid.options = GridOptionsDefault) =>
        /\ Called("get", IdxPair(2, -1)) => last.ret = Some(7)
        /\ Called("get_up", IdxPair(2, -1)) => last.ret = Some(2)
        /\ Called("get_down", IdxPair(2, -1)) => last.ret = Some(12)

\* C7 as amended: those three results are the ones under inverted_y = false.
\* Under inverted_y = true (the default) (2,-1) does not resolve and the three
\* calls return absent; the cell holding 7 is (2,1), whose get_up is 12 and
\* get_down is 2.
C7_ScenarioNotInverted ==
    /\ (Is5x5 /\ grid.options = [GridOptionsDefault EXCEPT !.inverted_y = FALSE]) =>
          /\ Called("get", IdxPair(2, -1)) => last.ret = Some(7)
          /\ Called("get_up", IdxPair(2, -1)) => last.ret = Some(2)
          /\ Called("get_down", IdxPair(2, -1)) => last.ret = Some(12)
    /\ (Is5x5 /\ grid.options = GridOptionsDefault) =>
          /\ Called("get", IdxPair(2, -1)) => last.ret = None
          /\ Called("get_up", IdxPair(2, -1)) => last.ret = None
          /\ Called("get_down", IdxPair(2, -1)) => last.ret = None
          /\ Called("get", IdxPair(2, 1)) => last.ret = Some(7)
          /\ Called("get_up", IdxPair(2, 1)) => last.ret = Some(12)
          /\ Called("get_down", IdxPair(2, 1)) => last.ret = Some(2)

\* get_up((2,-1)) was called on the 5x5 grid with inverted_y = false
C7_Witness ==
    /\ Is5x5
    /\ grid.options = [GridOptionsDefault EXCEPT !.inverted_y = FALSE]
    /\ Called("get_up", IdxPair(2, -1))
    /\ IsSome(last.ret)

\* C8 as claimed: on the 5x5 grid with origin UpperLeft, inverted_y = true,
\* both wraps on and the other options at their defaults, get_up((0,0)) is 20.
C8_WrapUp ==
    (Is5x5 /\ grid.options = [GridOptionsDefault EXCEPT !.wrap_x = TRUE, !.wrap_y = TRUE]
        /\ Called("get_up", IdxPair(0, 0)))
    => last.ret = Some(20)

\* C8 as amended: get_up((0,0)) is 20 when neighbor_ybased is false; with the
\* other options at their defaults (neighbor_ybased = true) get_up((0,0)) is 5,
\* the cell of the next storage row, and it is get_down((0,0)) that is 20.
C8_WrapUpStorageBased ==
    /\ (Is5x5 /\ grid.options = [GridOptionsDefault EXCEPT !.wrap_x = TRUE, !.wrap_y = TRUE,
                                                           !.neighbor_ybased = FALSE]) =>
          /\ Called("get_up", IdxPair(0, 0)) => last.ret = Some(20)
    /\ (Is5x5 /\ grid.options = [GridOptionsDefault EXCEPT !.wrap_x = TRUE, !.wrap_y = TRUE]) =>
          /\ Called("get_up", IdxPair(0, 0)) => last.ret = Some(5)
          /\ Called("get_down", IdxPair(0, 0)) => last.ret = Some(20)

\* get_up((0,0)) was called on the wrapped 5x5 grid with neighbor_ybased = false
C8_Witness ==
    /\ Is5x5
    /\ grid.options.wrap_y
    /\ grid.options.inverted_y
    /\ ~grid.options.neighbor_ybased
    /\ Called("get_up", IdxPair(0, 0))
    /\ IsSome(last.ret)

\* the coordinate one higher (d = 1) or lower (d = -1) in logical y
StepY(index, d) == IdxPair(index.x, index.y + d)

\* C9: with neighbor_ybased and without wrap_y, for every origin and inversion
\* and every (x, y) that resolves, get_up((x,y)) is get((x,y+1)) and
\* get_down((x,y)) is get((x,y-1)), absent exactly when that coordinate does
\* not resolve.
C9_UpIsHigherY ==
    (/\ last.op \in {"get_up", "get_down"}
     /\ last.index.kind = "pair"
     /\ grid.options.neighbor_ybased
     /\ ~grid.options.wrap_y
     /\ grid_index(last.index, grid).ok)
    => LET to == StepY(last.index, IF last.op = "get_up" THEN 1 ELSE -1) IN
       /\ last.ret = get(grid, to)
       /\ IsNone(last.ret) <=> ~grid_index(to, grid).ok

\* C10: up/down remapping.  For an offset that resolves, get_up takes the
\* storage-down step and get_down the storage-up step when inverted_y and
\* neighbor_ybased are both set, and in every other combination get_up takes
\* the storage-up step and get_down the storage-down step; so neighbor_ybased
\* changes nothing when inverted_y is false, and inverted_y changes nothing
\* when neighbor_ybased is false.
C10_Remap ==
    /\ (last.op \in {"get_up", "get_down"} /\ last.index.kind = "usize"
            /\ grid_index(last.index, grid).ok)
       => LET i == last.index.i
              swapped == grid.options.inverted_y /\ grid.options.neighbor_ybased
              down == actual_down_ind(grid, i)
              up == actual_up_ind(grid, i)
              step == IF (last.op = "get_up") = swapped THEN down ELSE up
              otherI == [grid EXCEPT !.options.inverted_y = ~@]
          IN  /\ last.idx = step
              /\ last.ret = neighbor_item(grid, step)
              /\ ~grid.options.neighbor_ybased =>
                    /\ get_up(otherI, last.index) = get_up(grid, last.index)
                    /\ get_down(otherI, last.index) = get_down(grid, last.index)
    /\ (last.op \in {"get_up", "get_down"} /\ ~grid.options.inverted_y)
       => LET otherN == [grid EXCEPT !.options.neighbor_ybased = ~@] IN
          /\ get_up(otherN, last.index) = get_up(grid, last.index)
          /\ get_down(otherN, last.index) = get_down(grid, last.index)

\* get_up took the storage-down step, which differs from the storage-up step
C10_Witness ==
    /\ last.op = "get_up"
    /\ last.index.kind = "usize"
    /\ grid.options.inverted_y
    /\ grid.options.neighbor_ybased
    /\ last.idx.ok
    /\ last.idx = actual_down_ind(grid, last.index.i)
    /\ last.idx # actual_up_ind(grid, last.index.i)
    /\ IsSome(last.ret)

\* the last call named a cell of the grid: its index resolved to an offset of
\* the storage
OnCell ==
    /\ HasGrid
    /\ "index" \in DOMAIN last
    /\ grid_index(last.index, grid).ok
    /\ grid_index(last.index, grid).val < size(grid)

\* the storage offset, row and column of that cell
CellOffset == grid_index(last.index, grid).val
CellRow == CellOffset \div grid.cols
CellCol == CellOffset % grid.cols

\* the cell stored at a row and column of the storage
CellAt(g, row, col) == Some(g.items[row * g.cols + col + 1])

\* the storage direction the last cardinal getter stepped in: get_up and
\* get_down are exchanged when inverted_y and neighbor_ybased are both set
RawStep ==
    LET swapped == grid.options.inverted_y /\ grid.options.neighbor_ybased IN
    CASE last.op = "get_left" -> "left"
      [] last.op = "get_right" -> "right"
      [] last.op = "get_up" -> IF swapped THEN "down" ELSE "up"
      [] last.op = "get_down" -> IF swapped THEN "up" ELSE "down"

\* C11: wrap symmetry.  With wrap_x the right neighbour of the last cell of a
\* row is the first cell of that row and the left neighbour of the first cell
\* is the last cell of that row; with wrap_y the raw-up neighbour of a top-row
\* cell is the bottom-row cell of its column and the raw-down neighbour of a
\* bottom-row cell is the top-row cell of its column.  With the flag off each
\* of these moves is absent.
C11_WrapSymmetry ==
    (last.op \in {"get_up", "get_down", "get_left", "get_right"} /\ OnCell) =>
        /\ (RawStep = "right" /\ CellCol = grid.cols - 1) =>
              last.ret = IF grid.options.wrap_x THEN CellAt(grid, CellRow, 0) ELSE None
        /\ (RawStep = "left" /\ CellCol = 0) =>
              last.ret = IF grid.options.wrap_x THEN CellAt(grid, CellRow, grid.cols - 1) ELSE None
        /\ (RawStep = "up" /\ CellRow = 0) =>
              last.ret = IF grid.options.wrap_y THEN CellAt(grid, grid.rows - 1, CellCol) ELSE None
        /\ (RawStep = "down" /\ CellRow = grid.rows - 1) =>
              last.ret = IF grid.options.wrap_y THEN CellAt(grid, 0, CellCol) ELSE None

\* get_right wrapped from the end of a row that is not the first row to its
\* first cell
C11_Witness ==
    /\ last.op = "get_right"
    /\ OnCell
    /\ grid.options.wrap_x
    /\ grid.cols >= 2
    /\ CellRow >= 1
    /\ CellCol = grid.cols - 1
    /\ last.ret = CellAt(grid, CellRow, 0)

\* the position k of 0 .. n-1 moved by d (-1, 0 or 1): wrapped to the other
\* end when the axis wraps, absent past the edge when it does not
Step(n, k, d, wrap) ==
    LET t == k + d IN
    IF 0 <= t /\ t < n THEN Some(t)
    ELSE IF wrap THEN Some((t + n) % n) ELSE None

\* the storage row delta of a getter: "up" is one row less, "down" one row
\* more, exchanged when inverted_y and neighbor_ybased are both set
Dy(g, op) ==
    LET swapped == g.options.inverted_y /\ g.options.neighbor_ybased IN
    CASE op \in {"get_up", "get_upleft", "get_upright"} -> IF swapped THEN 1 ELSE -1
      [] op \in {"get_down", "get_downleft", "get_downright"} -> IF swapped THEN -1 ELSE 1
      [] OTHER -> 0

\* the storage column delta of a getter
Dx(op) ==
    CASE op \in {"get_left", "get_upleft", "get_downleft"} -> -1
      [] op \in {"get_right", "get_upright", "get_downright"} -> 1
      [] OTHER -> 0

\* the neighbour of the cell at (row, col) in the direction of a getter, from
\* the geometry of the grid alone
Neighbour(g, row, col, op) ==
    LET tr == Step(g.rows, row, Dy(g, op), g.options.wrap_y)
        tc == Step(g.cols, col, Dx(op), g.options.wrap_x)
    IN  IF IsSome(tr) /\ IsSome(tc) THEN CellAt(g, tr.val, tc.val) ELSE None

Diagonals == {"get_upleft", "get_upright", "get_downleft", "get_downright"}

\* the vertical getter of a diagonal, then the horizontal getter from the cell
\* it returned (a cell's value is its offset)
ThenHorizontal(g, op, v) ==
    IF ~IsSome(v) THEN None
    ELSE IF op \in {"get_upleft", "get_downleft"}
         THEN get_left(g, IdxUsize(v.val))
         ELSE get_right(g, IdxUsize(v.val))

Composed(g, op, index) ==
    ThenHorizontal(g, op,
        IF op \in {"get_upleft", "get_upright"} THEN get_up(g, index) ELSE get_down(g, index))

\* C12: a diagonal neighbour of a cell is the vertical step followed by the
\* horizontal step from the intermediate cell.  It is present exactly when
\* both steps are, each step being present inside the grid or across a
\* wrapped edge, so a diagonal across an edge whose axis does not wrap is
\* absent whatever the other axis does.
C12_Diagonals ==
    (last.op \in Diagonals /\ OnCell) =>
        /\ last.ret = Composed(grid, last.op, last.index)
        /\ last.ret = Neighbour(grid, CellRow, CellCol, last.op)
        /\ IsSome(last.ret) <=>
              /\ IsSome(Neighbour(grid, CellRow, CellCol,
                                  IF Dy(grid, last.op) = Dy(grid, "get_up")
                                  THEN "get_up" ELSE "get_down"))
              /\ IsSome(Neighbour(grid, CellRow, CellCol,
                                  IF Dx(last.op) = -1 THEN "get_left" ELSE "get_right"))

\* with only the rows wrapped, get_upleft from the first column is absent
\* although its vertical step is a wrapped one
C12_Witness ==
    /\ last.op = "get_upleft"
    /\ OnCell
    /\ grid.options.wrap_y
    /\ ~grid.options.wrap_x
    /\ grid.rows >= 2
    /\ grid.cols >= 2
    /\ CellCol = 0
    /\ IsSome(get_up(grid, last.index))
    /\ get_up(grid, last.index) = Neighbour(grid, CellRow, CellCol, "get_up")
    /\ CellRow = (IF Dy(grid, "get_up") = 1 THEN grid.rows - 1 ELSE 0)
    /\ last.ret = None

\* the fields of a neighbour record that are absent
AbsentOf(n) == {f \in DOMAIN n : IsNone(n[f])}

\* the last call asked for the neighbour record of a cell of a grid that
\* wraps on neither axis
AroundUnwrappedCell ==
    /\ last.op \in {"xy_neighbors", "all_around_neighbors"}
    /\ OnCell
    /\ ~grid.options.wrap_x
    /\ ~grid.options.wrap_y

OnRowEdge == CellRow = 0 \/ CellRow = grid.rows - 1
OnColEdge == CellCol = 0 \/ CellCol = grid.cols - 1

\* the counts claimed for the cell of the last call: all present off the
\* edges, 3 of 8 absent on one edge, 5 of 8 absent in a corner
CountsAsClaimed ==
    /\ last.ret.ok
    /\ (~OnRowEdge /\ ~OnColEdge) => AbsentOf(last.ret.val) = {}
    /\ (last.op = "all_around_neighbors" /\ OnRowEdge # OnColEdge) =>
          Cardinality(AbsentOf(last.ret.val)) = 3
    /\ (last.op = "all_around_neighbors" /\ OnRowEdge /\ OnColEdge) =>
          Cardinality(AbsentOf(last.ret.val)) = 5

\* C13 as claimed: on every grid that wraps on neither axis, whatever its rows
\* and cols (from 1), a cell on no edge has its 4 cardinal and its 8
\* all-around neighbours present, an edge cell that is not a corner has
\* exactly 3 of the 8 absent and a corner cell exactly 5.
C13_NeighbourCount == AroundUnwrappedCell => CountsAsClaimed

\* C13 as amended: those counts are the ones of grids with at least 2 rows and
\* 2 columns.  On a grid of one row or one column every cell lies on two
\* opposite edges: 6 of the 8 are absent for a cell that is not at an end, 7
\* for an end cell, and all 8 on the grid of one cell.
C13_NeighbourCountFrom2 ==
    AroundUnwrappedCell =>
        IF grid.rows >= 2 /\ grid.cols >= 2
        THEN CountsAsClaimed
        ELSE /\ last.ret.ok
             /\ last.op = "all_around_neighbors" =>
                   LET long == Max(grid.rows, grid.cols)
                       at == IF grid.rows = 1 THEN CellCol ELSE CellRow
                       absent == Cardinality(AbsentOf(last.ret.val))
                   IN  IF long = 1 THEN absent = 8
                       ELSE IF at = 0 \/ at = long - 1 THEN absent = 7
                       ELSE absent = 6

\* all_around_neighbors of a cell in the middle of a grid of one row: it is
\* on the top and the bottom edge and in no corner, and 6 of the 8 are absent
C13_Witness ==
    /\ AroundUnwrappedCell
    /\ last.op = "all_around_neighbors"
    /\ grid.rows = 1
    /\ grid.cols >= 3
    /\ CellCol = 1
    /\ last.ret.ok
    /\ Cardinality(AbsentOf(last.ret.val)) = 6

\* the last call named a coordinate that does not resolve
Unresolved ==
    /\ HasGrid
    /\ "index" \in DOMAIN last
    /\ ~grid_index(last.index, grid).ok

Getters ==
    {"get", "get_up", "get_down", "get_left", "get_right",
     "get_upleft", "get_upright", "get_downleft", "get_downright"}
MutGetters ==
    {"get_mut", "get_up_mut", "get_down_mut", "get_left_mut", "get_right_mut",
     "get_upleft_mut", "get_upright_mut", "get_downleft_mut", "get_downright_mut"}
Iterators ==
    {"row_iter", "row_iter_mut", "col_iter", "col_iter_mut", "nrant_iter", "quadrant_iter"}

\* C14: absence instead of failure.  For a coordinate that does not resolve,
\* in any representation, get, get_mut and every directional getter and its
\* _mut form return absent, and row_iter, col_iter, nrant_iter, quadrant_iter
\* and the mutable iterators are made without a panic and return the end of
\* the sequence at the first next() and at every later one.
C14_AbsentNotFailure ==
    Unresolved =>
        /\ last.op \in Getters \cup MutGetters => last.ret = None
        /\ last.op \in Iterators =>
              /\ ~IsPanic(last.iter)
              /\ \A k \in 1..Len(last.yielded) : last.yielded[k] = None

\* nrant_iter on a coordinate outside a grid of several cells returned the end
\* of the sequence twice
C14_Witness ==
    /\ Unresolved
    /\ last.op = "nrant_iter"
    /\ last.index.kind = "pair"
    /\ last.divisor = 2
    /\ size(grid) >= 4
    /\ last.yielded = <<None, None>>

\* a divisor nrant accepts: from 1 to the longer side of the grid
ValidDivisor(g, d) == 1 <= d /\ d <= Max(g.rows, g.cols)

\* C15: nrant(index, d) fails with InvalidDivisionSize exactly when d < 1 or
\* d > max(rows, cols), also when the index does not resolve either; for a
\* valid d it fails with IndexOutOfBounds exactly when the index does not
\* resolve; in every other case it returns a region id.
C15_NrantErrors ==
    last.op = "nrant" =>
        IF ~ValidDivisor(grid, last.divisor)
        THEN last.ret = Err("InvalidDivisionSize")
        ELSE IF ~grid_index(last.index, grid).ok
             THEN last.ret = Err("IndexOutOfBounds")
             ELSE last.ret.ok

\* nrant was given a divisor past the longer side and a coordinate outside the
\* grid, and reported the divisor
C15_Witness ==
    /\ last.op = "nrant"
    /\ HasGrid
    /\ size(grid) >= 2
    /\ last.divisor > Max(grid.rows, grid.cols)
    /\ ~grid_index(last.index, grid).ok
    /\ last.ret = Err("InvalidDivisionSize")

\* the least k with k * b >= a, for b >= 1
Ceil(a, b) == CHOOSE k \in 0..a : k * b >= a /\ (k - 1) * b < a

\* the region id of the cell at offset i: its block of rows, times d, plus its
\* block of columns
RegionId(g, i, d) ==
    ((i \div g.cols) \div Ceil(g.rows, d)) * d + (i % g.cols) \div Ceil(g.cols, d)

\* C16: for every valid divisor d and every offset i of the grid,
\* nrant(i, d) = ((i / cols) / ceil(rows/d)) * d + (i % cols) / ceil(cols/d)
\* and 0 <= id < d*d; quadrant(i) is nrant(i, 2); and the id of an offset is
\* the same under every origin, inverted_y, neighbor_ybased, wrap_x and wrap_y.
C16_RegionId ==
    (last.op \in {"nrant", "quadrant"} /\ last.index.kind = "usize" /\ OnCell
        /\ ValidDivisor(grid, last.divisor)) =>
        LET i == last.index.i
            d == last.divisor
        IN  /\ last.ret = Ok(RegionId(grid, i, d))
            /\ 0 <= last.ret.val
            /\ last.ret.val < d * d
            /\ last.op = "quadrant" => last.ret = nrant(grid, last.index, 2)
            /\ \A o \in AllOptions :
                  nrant([grid EXCEPT !.options = o], last.index, d) = last.ret

\* nrant on a grid the divisor does not divide: the last region of a grid of
\* 3 rows cut in 2
C16_Witness ==
    /\ last.op = "nrant"
    /\ last.index.kind = "usize"
    /\ OnCell
    /\ grid.rows = 3
    /\ grid.cols = 3
    /\ last.divisor = 2
    /\ last.index.i = 8
    /\ last.ret = Ok(3)

\* a region iteration was started from a cell with a valid divisor
RegionIteration ==
    /\ last.op \in {"nrant_iter", "quadrant_iter"}
    /\ OnCell
    /\ ValidDivisor(grid, last.divisor)

\* that iteration has returned the end of its sequence
Completed == Ends(last.yielded) >= 1

\* the positions of the yielded sequence that hold a present cell
PresentAt(y) == {k \in 1..Len(y) : IsSome(y[k]) /\ IsSome(y[k].val)}

\* the offsets of the cells with the region id of offset i
Region(g, i, d) == {c \in 0..(size(g) - 1) : RegionId(g, c, d) = RegionId(g, i, d)}

\* C17: ragged partition coverage.  For every rows, cols and valid divisor an
\* iteration started from cell i yields, among its present cells, only cells
\* with the nrant id of i, and once completed it has yielded every cell of
\* that id exactly once; so one iteration per region id yields together
\* every cell of the grid exactly once.
C17_Coverage ==
    RegionIteration =>
        LET y == last.yielded
            P == PresentAt(y)
        IN  /\ \A k \in P : y[k].val.val \in Region(grid, CellOffset, last.divisor)
            /\ \A j, k \in P : y[j] = y[k] => j = k
            /\ Completed =>
                  {y[k].val.val : k \in P} = Region(grid, CellOffset, last.divisor)

\* slot k (from 0) of a region of width rwidth starting at offset start: the
\* cell at start + (k / rwidth) * cols + (k % rwidth) when its column is inside
\* the grid and its offset inside the storage, the "no cell" marker otherwise
Slot(g, start, rwidth, k) ==
    LET pos == start + (k \div rwidth) * g.cols + (k % rwidth)
        column == (start % g.cols) + (k % rwidth)
    IN  IF column < g.cols /\ pos < size(g) THEN Some(Some(g.items[pos + 1])) ELSE Some(None)

\* C18: fixed arity of region iteration.  For an in-bounds index and a valid
\* divisor d, nrant_iter yields ceil(cols/d) * ceil(rows/d) slots and then the
\* end of the sequence at every later call; slot k is the cell at
\* start + (k / rwidth) * cols + (k % rwidth), start being the iterator's start
\* (what nrant_start returns for the index), when that position is inside the
\* grid's columns and storage, and Some(None) otherwise; no slot is skipped.
C18_FixedArity ==
    RegionIteration =>
        LET d == last.divisor
            rwidth == Ceil(grid.cols, d)
            slots == rwidth * Ceil(grid.rows, d)
            y == last.yielded
        IN  /\ ~IsPanic(last.iter)
            /\ last.iter.start = nrant_start(grid, CellOffset, d).val
            /\ \A k \in 1..Len(y) :
                  y[k] = IF k <= slots THEN Slot(grid, last.iter.start, rwidth, k - 1) ELSE None
            /\ Completed => Len(y) > slots

\* the region right of a 2-column region on a grid of 3 columns was iterated
\* to its end and past it: it yielded a marker for every second slot
C18_Witness ==
    /\ RegionIteration
    /\ last.op = "nrant_iter"
    /\ grid.cols = 3
    /\ grid.rows >= 3
    /\ last.divisor = 2
    /\ CellCol = 2
    /\ Len(last.yielded) = 6
    /\ last.yielded[2] = Some(None)
    /\ last.yielded[4] = Some(None)
    /\ IsSome(last.yielded[3].val)
    /\ last.yielded[5] = None
    /\ last.yielded[6] = None

\* when d divides rows and cols: the offsets of the cells of the region of
\* cell i, row by row
RegionRowMajor(g, i, d) ==
    LET h == g.rows \div d
        w == g.cols \div d
        r0 == ((i \div g.cols) \div h) * h
        c0 == ((i % g.cols) \div w) * w
    IN  [k \in 1..(h * w) |-> (r0 + (k - 1) \div w) * g.cols + c0 + ((k - 1) % w)]

\* the calls of next() so far returned the cells `cells` in order, all
\* present, and after them the end of the sequence
YieldedThenEnd(y, cells) ==
    \A k \in 1..Len(y) : y[k] = IF k <= Len(cells) THEN Some(Some(cells[k])) ELSE None

\* the 9x9 grid holding 1..81 row-major
Is9x9 == HasGrid /\ grid.rows = 9 /\ grid.cols = 9 /\ grid.items = Sudoku

\* nrant_iter(d, index) was called with these arguments
CalledIter(index, d) == last.op = "nrant_iter" /\ last.index = index /\ last.divisor = d

\* C19: when d divides rows and cols, nrant_iter(d, index) yields, all present
\* and row by row, exactly the (rows/d) * (cols/d) cells with the nrant id of
\* index, whichever cell of the region index names, and then ends.  On the 9x9
\* grid holding 1..81, nrant(10, 3) is 0, the iteration from offset 10 yields
\* 1,2,3,10,11,12,19,20,21 and the one from offset 80 yields
\* 61,62,63,70,71,72,79,80,81.
C19_DivisibleRegion ==
    /\ (RegionIteration /\ grid.rows % last.divisor = 0 /\ grid.cols % last.divisor = 0) =>
          LET d == last.divisor
              offsets == RegionRowMajor(grid, CellOffset, d)
          IN  /\ Len(offsets) = (grid.rows \div d) * (grid.cols \div d)
              /\ {offsets[k] : k \in 1..Len(offsets)} = Region(grid, CellOffset, d)
              /\ YieldedThenEnd(last.yielded,
                                [k \in 1..Len(offsets) |-> grid.items[offsets[k] + 1]])
              /\ Completed => Len(last.yielded) > Len(offsets)
    /\ Is9x9 =>
          /\ (last.op = "nrant" /\ last.index = IdxUsize(10) /\ last.divisor = 3) =>
                last.ret = Ok(0)
          /\ CalledIter(IdxUsize(10), 3) =>
                /\ YieldedThenEnd(last.yielded, <<1, 2, 3, 10, 11, 12, 19, 20, 21>>)
                /\ Completed => Len(last.yielded) > 9
          /\ CalledIter(IdxUsize(80), 3) =>
                /\ YieldedThenEnd(last.yielded, <<61, 62, 63, 70, 71, 72, 79, 80, 81>>)
                /\ Completed => Len(last.yielded) > 9

\* the iteration from offset 80 of the 9x9 grid yielded its nine cells and ended
C19_Witness ==
    /\ Is9x9
    /\ CalledIter(IdxUsize(80), 3)
    /\ Len(last.yielded) = 10
    /\ last.yielded[1] = Some(Some(61))
    /\ last.yielded[9] = Some(Some(81))
    /\ last.yielded[10] = None

\* C20: row_iter(index) for an index that names a cell, in any representation
\* and under every origin and inversion, yields the cols cells of the row of
\* that cell from its first column to its last, whichever column the index
\* names, and then the end of the sequence; row_iter_mut visits the same cells
\* in the same order.
C20_RowIter ==
    (last.op \in {"row_iter", "row_iter_mut"} /\ OnCell) =>
        /\ ~IsPanic(last.iter)
        /\ \A k \in 1..Len(last.yielded) :
              last.yielded[k] = IF k <= grid.cols THEN CellAt(grid, CellRow, k - 1) ELSE None
        /\ Completed => Len(last.yielded) > grid.cols

\* row_iter_mut from a signed pair naming a cell off the first column and off
\* the first row of a Center grid went through the row and ended
C20_Witness ==
    /\ last.op = "row_iter_mut"
    /\ OnCell
    /\ last.index.kind = "pair"
    /\ origin(grid) = "Center"
    /\ grid.cols >= 3
    /\ CellRow >= 1
    /\ CellCol >= 1
    /\ Len(last.yielded) = grid.cols + 1
    /\ last.yielded[1] = CellAt(grid, CellRow, 0)
    /\ last.yielded[grid.cols] = CellAt(grid, CellRow, grid.cols - 1)
    /\ last.yielded[grid.cols + 1] = None

\* C21: col_iter(index) for an index that names a cell yields the rows cells
\* of the column of that cell, offsets c, c + cols, c + 2*cols, .. with
\* c = offset % cols, from storage row 0 downward, whichever row the index
\* names, and then the end of the sequence; col_iter_mut visits the same cells
\* in the same order.
C21_ColIter ==
    (last.op \in {"col_iter", "col_iter_mut"} /\ OnCell) =>
        /\ ~IsPanic(last.iter)
        /\ \A k \in 1..Len(last.yielded) :
              last.yielded[k] =
                  IF k <= grid.rows
                  THEN Some(grid.items[CellCol + (k - 1) * grid.cols + 1])
                  ELSE None
        /\ Completed => Len(last.yielded) > grid.rows

\* col_iter from a cell off the first row and off the first column went down
\* the whole column and ended
C21_Witness ==
    /\ last.op = "col_iter"
    /\ OnCell
    /\ grid.rows >= 3
    /\ grid.cols >= 2
    /\ CellRow >= 1
    /\ CellCol >= 1
    /\ Len(last.yielded) = grid.rows + 1
    /\ last.yielded[1] = CellAt(grid, 0, CellCol)
    /\ last.yielded[grid.rows] = CellAt(grid, grid.rows - 1, CellCol)
    /\ last.yielded[grid.rows + 1] = None

\* the last call was Grid::new on an input of one of these kinds
Built(kinds) == last.op = "new" /\ last.items.kind \in kinds

\* C22: Grid::new on (pattern, n) with a non-empty pattern and n >= 1 returns
\* a grid with rows() = n and columns() = the pattern's length whose every row
\* is the pattern, the cell at storage row r and column c being pattern[c]; an
\* empty pattern or n = 0 fails with InvalidSize.
C22_Pattern ==
    Built({"pattern", "pattern_ref"}) =>
        LET pattern == last.items.v
            n == last.items.n
        IN  IF Len(pattern) >= 1 /\ n >= 1
            THEN /\ last.ret.ok
                 /\ rows(grid) = n
                 /\ columns(grid) = Len(pattern)
                 /\ size(grid) = n * Len(pattern)
                 /\ \A r \in 0..(n - 1), c \in 0..(Len(pattern) - 1) :
                       grid.items[r * columns(grid) + c + 1] = pattern[c + 1]
            ELSE last.ret = Err("InvalidSize")

\* the rows and columns the last constructor call asked for
AskedRows ==
    CASE last.op = "new_from_1d" -> last.rows
      [] Built({"vec2d"}) -> Len(last.items.v)
      [] Built({"pattern", "pattern_ref"}) -> last.items.n
      [] Built({"fill"}) -> last.items.rows
AskedCols ==
    CASE last.op = "new_from_1d" -> last.cols
      [] Built({"vec2d"}) -> IF Len(last.items.v) = 0 THEN 0 ELSE Len(last.items.v[1])
      [] Built({"pattern", "pattern_ref"}) -> Len(last.items.v)
      [] Built({"fill"}) -> last.items.cols

\* C23: every grid a constructor returns (nested rows, pattern and row count,
\* (columns, rows, fill), new_from_1d) has rows >= 1, cols >= 1 and
\* rows * cols items; a call asking for zero rows or zero columns fails with
\* InvalidSize, and so does new_from_1d on a vector whose length is not
\* rows * cols.
C23_Shape ==
    last.op \in {"new", "new_from_1d"} =>
        /\ last.ret.ok =>
              /\ last.ret.val.rows >= 1
              /\ last.ret.val.cols >= 1
              /\ Len(last.ret.val.items) = last.ret.val.rows * last.ret.val.cols
        /\ (AskedRows = 0 \/ AskedCols = 0) => last.ret = Err("InvalidSize")
        /\ (last.op = "new_from_1d" /\ last.len # last.rows * last.cols) =>
              last.ret = Err("InvalidSize")

\* C24: Grid::new on nested rows fails with InvalidSize when the outer vector
\* or its first row is empty, otherwise with RowSizeMismatch when a row's
\* length differs from the first row's, and otherwise returns the grid with as
\* many rows as the vector, as many columns as a row, and the rows
\* concatenated in order, cell (r, c) at offset r * cols + c.
C24_Nested ==
    Built({"vec2d"}) =>
        LET v == last.items.v IN
        IF Len(v) = 0 \/ Len(v[1]) = 0
        THEN last.ret = Err("InvalidSize")
        ELSE IF \E i \in 1..Len(v) : Len(v[i]) # Len(v[1])
        THEN last.ret = Err("RowSizeMismatch")
        ELSE /\ last.ret.ok
             /\ rows(grid) = Len(v)
             /\ columns(grid) = Len(v[1])
             /\ Len(grid.items) = Len(v) * Len(v[1])
             /\ \A r \in 0..(Len(v) - 1), c \in 0..(Len(v[1]) - 1) :
                   grid.items[r * Len(v[1]) + c + 1] = v[r + 1][c + 1]

\* a 3x2 grid was built from nested rows, cell (2, 1) at offset 5
C24_Witness ==
    /\ Built({"vec2d"})
    /\ last.ret.ok
    /\ Len(last.items.v) = 3
    /\ Len(last.items.v[1]) = 2
    /\ rows(grid) = 3
    /\ columns(grid) = 2
    /\ grid.items[6] = last.items.v[3][2]

\* the logical coordinates grid_index accepts on the grid
Accepted ==
    {p \in CoordRange(grid) \X CoordRange(grid) : grid_index(IdxPair(p[1], p[2]), grid).ok}
Largest(S) == CHOOSE m \in S : \A n \in S : n <= m
Smallest(S) == CHOOSE m \in S : \A n \in S : m <= n

\* C25: on a grid with at least one row and one column, max_x() and min_x()
\* are the largest and the smallest x, and max_y() and min_y() the largest and
\* the smallest y, of the logical coordinates grid_index accepts under the
\* grid's origin and inverted_y.
C25_Extent ==
    (HasGrid /\ last.op \in {"max_x", "min_x", "max_y", "min_y"}
        /\ grid.rows >= 1 /\ grid.cols >= 1) =>
        last.ret =
            CASE last.op = "max_x" -> Largest({p[1] : p \in Accepted})
              [] last.op = "min_x" -> Smallest({p[1] : p \in Accepted})
              [] last.op = "max_y" -> Largest({p[2] : p \in Accepted})
              [] last.op = "min_y" -> Smallest({p[2] : p \in Accepted})

\* C26: for every valid divisor d and every offset i of the grid,
\* nrant_start(i, d) is the smallest offset whose region id is that of i, the
\* cell at row (row block) * ceil(rows/d) and column (column block) *
\* ceil(cols/d); so the region id of nrant_start(i, d) is that of i, and
\* nrant_start is the same for every offset of the region.
C26_RegionStart ==
    (last.op = "nrant_start" /\ OnCell /\ ValidDivisor(grid, last.divisor)) =>
        LET i == last.index.i
            d == last.divisor
            region == {j \in 0..(size(grid) - 1) : RegionId(grid, j, d) = RegionId(grid, i, d)}
            row_block == (i \div grid.cols) \div Ceil(grid.rows, d)
            col_block == (i % grid.cols) \div Ceil(grid.cols, d)
        IN  /\ last.ret = Ok(Smallest(region))
            /\ last.ret = Ok(row_block * Ceil(grid.rows, d) * grid.cols
                               + col_block * Ceil(grid.cols, d))
            /\ nrant(grid, IdxUsize(last.ret.val), d) = nrant(grid, IdxUsize(i), d)
            /\ \A j \in region : nrant_start(grid, j, d) = last.ret

\* C27: after v is written through get_mut(c) for a c that names a cell, get
\* of every index (offset, pair or Coordinates) that resolves to the same
\* offset returns v, every other cell is as before, and rows, cols, options
\* and the number of items are as before; and after any sequence of writes
\* through get_mut, the neighbour _mut getters and the mutable row, column
\* and whole-grid iterators, and of swaps, the grid has the rows and cols it
\* was built with and rows * cols items.
C27_WriteFrame ==
    /\ (last.op = "write_get_mut" /\ OnCell) =>
          /\ last.ret = Some(last.value)
          /\ \A other \in IndexInputs(grid) :
                (grid_index(other, grid).ok /\ grid_index(other, grid).val = CellOffset) =>
                    get(grid, other) = Some(last.value)
          /\ \A k \in 0..(size(grid) - 1) :
                k # CellOffset => grid.items[k + 1] = last.before.items[k + 1]
          /\ grid.rows = last.before.rows
          /\ grid.cols = last.before.cols
          /\ grid.options = last.before.options
          /\ Len(grid.items) = Len(last.before.items)
    /\ last.op \in WriteOps =>
          /\ grid.rows = last.orig.rows
          /\ grid.cols = last.orig.cols
          /\ grid.options = last.orig.options
          /\ Len(grid.items) = grid.rows * grid.cols

\* the second write of a sequence went through get_mut of a pair on a 2x2 grid
\* and changed the cell, which an offset reads back
C27_Witness ==
    /\ last.op = "write_get_mut"
    /\ OnCell
    /\ last.index.kind = "pair"
    /\ last.writes = 2
    /\ last.before # last.orig
    /\ grid.rows = 2
    /\ grid.cols = 2
    /\ last.before.items[CellOffset + 1] # last.value
    /\ get(grid, IdxUsize(CellOffset)) = Some(last.value)

\* C28: swap(a, b) with both arguments resolving returns Ok, exchanges the
\* values at the two resolved offsets and leaves every other cell as it was,
\* so that swap(a, a) changes nothing and a second swap(a, b) restores the
\* grid; with an argument that does not resolve it returns IndexOutOfBounds
\* and leaves the grid as it was.
C28_Swap ==
    last.op = "swap" =>
        LET ra == grid_index(last.a, last.before)
            rb == grid_index(last.b, last.before)
        IN  IF ra.ok /\ rb.ok
            THEN /\ last.ret = Ok(TRUE)
                 /\ grid.items[ra.val + 1] = last.before.items[rb.val + 1]
                 /\ grid.items[rb.val + 1] = last.before.items[ra.val + 1]
                 /\ \A k \in 0..(size(grid) - 1) :
                       k \notin {ra.val, rb.val} => grid.items[k + 1] = last.before.items[k + 1]
                 /\ [grid EXCEPT !.items = last.before.items] = last.before
                 /\ ra.val = rb.val => grid = last.before
                 /\ swap(grid, last.a, last.b).grid = last.before
            ELSE /\ last.ret = Err("IndexOutOfBounds")
                 /\ grid = last.before

\* C29: nrant_iter(d, index) with an index that names a cell and a divisor
\* nrant rejects (d = 0 or d > max(rows, cols)), and so quadrant_iter on a 1x1
\* grid, does not abort: it returns an iterator, whose next() returns the end.
C29_NoAbort ==
    (last.op \in {"nrant_iter", "quadrant_iter"} /\ OnCell
        /\ ~ValidDivisor(grid, last.divisor)) =>
        /\ ~IsPanic(last.iter)
        /\ \A k \in 1..Len(last.yielded) : last.yielded[k] = None

\* the step opposite to the one the last cardinal getter made, from offset j
OppositeIdx(j) ==
    CASE last.op = "get_up" -> down_idx(grid, IdxUsize(j))
      [] last.op = "get_down" -> up_idx(grid, IdxUsize(j))
      [] last.op = "get_left" -> right_idx(grid, IdxUsize(j))
      [] last.op = "get_right" -> left_idx(grid, IdxUsize(j))

\* C30: under every option record and for every offset i of the grid, a
\* neighbour offset j that up, down, left or right returns is an offset of the
\* grid, and the opposite step from j returns i: left undoes right and right
\* undoes left, down undoes up and up undoes down, across wrapped edges too.
C30_Inverse ==
    (last.op \in {"get_up", "get_down", "get_left", "get_right"}
        /\ last.index.kind = "usize" /\ OnCell /\ last.idx.ok) =>
        /\ last.idx.val \in 0..(size(grid) - 1)
        /\ OppositeIdx(last.idx.val) = Ok(last.index.i)

\* a step up and a step left that wrapped, on a grid of at least 3 rows and 3
\* columns
C30_Witness ==
    /\ last.op \in {"get_up", "get_left"}
    /\ last.index.kind = "usize"
    /\ OnCell
    /\ last.idx.ok
    /\ grid.rows >= 3
    /\ grid.cols >= 3
    /\ grid.options.wrap_x
    /\ grid.options.wrap_y
    /\ \/ last.op = "get_left" /\ last.idx.val = last.index.i + grid.cols - 1
       \/ last.op = "get_up" /\ last.idx.val = last.index.i + (grid.rows - 1) * grid.cols
    /\ OppositeIdx(last.idx.val) = Ok(last.index.i)

====
